---- MODULE Spec2Model ----
(***************************************************************************)
(* A model of the isc-radius transaction engines.                          *)
(*                                                                         *)
(*   client engine: lib/client.js, _request and RadiusClient               *)
(*   server engine: lib/server.js, defaultResponse, invokeHandlers,        *)
(*                  getResponse and startServer                            *)
(*   code table   : lib/code.js                                            *)
(*                                                                         *)
(* JavaScript runs every event handler to completion, so each handler      *)
(* (and each stretch of an async function between two awaits) is one       *)
(* action.  Array indices are 0-based as in the source.                    *)
(***************************************************************************)
EXTENDS Integers, Sequences, FiniteSets, TLC

(***************************************************************************)
(* Bounds of the model.                                                    *)
(***************************************************************************)
MaxServers == 2
MaxRetry == 2
MaxHandlers == 2
MaxDatagrams == 2
MaxAdds == 3
MaxLoads == 2

(***************************************************************************)
(* lib/code.js: the code table.  A Code instance is modelled by its        *)
(* numeric value; the static property that names it is the upper-cased     *)
(* name with its first hyphen replaced by an underscore.                   *)
(***************************************************************************)
codeTable ==
    { <<1, "Access-Request">>, <<2, "Access-Accept">>, <<3, "Access-Reject">>,
      <<4, "Accounting-Request">>, <<5, "Accounting-Response">>,
      <<11, "Access-Challenge">>, <<12, "Status-Server">>, <<13, "Status-Client">>,
      <<40, "Disconnect-Request">>, <<41, "Disconnect-ACK">>,
      <<42, "Disconnect-NAK">>, <<43, "CoA-Request">>, <<44, "CoA-ACK">>,
      <<45, "CoA-NAK">> }

Codes == { e[1] : e \in codeTable }

\* A JavaScript undefined where a string is expected.
Undefined == "undefined"

\* Code#toString: codeToName.get(this.code)
CodeToString(c) ==
    IF c \in Codes THEN (CHOOSE e \in codeTable : e[1] = c)[2] ELSE Undefined

\* name.toUpperCase().replace('-', '_'), the name of the static property
\* that holds the code's instance
PropertyName(name) ==
    CASE name = "Access-Request" -> "ACCESS_REQUEST"
      [] name = "Access-Accept" -> "ACCESS_ACCEPT"
      [] name = "Access-Reject" -> "ACCESS_REJECT"
      [] name = "Accounting-Request" -> "ACCOUNTING_REQUEST"
      [] name = "Accounting-Response" -> "ACCOUNTING_RESPONSE"
      [] name = "Access-Challenge" -> "ACCESS_CHALLENGE"
      [] name = "Status-Server" -> "STATUS_SERVER"
      [] name = "Status-Client" -> "STATUS_CLIENT"
      [] name = "Disconnect-Request" -> "DISCONNECT_REQUEST"
      [] name = "Disconnect-ACK" -> "DISCONNECT_ACK"
      [] name = "Disconnect-NAK" -> "DISCONNECT_NAK"
      [] name = "CoA-Request" -> "COA_REQUEST"
      [] name = "CoA-ACK" -> "COA_ACK"
      [] name = "CoA-NAK" -> "COA_NAK"

\* Code.<property>: the instance the initialisation loop defined under that
\* name, and undefined, written 0 (no code is 0), for a name it did not define
CodeProperty(property) ==
    LET defined == { e \in codeTable : PropertyName(e[2]) = property }
    IN  IF defined = {} THEN 0 ELSE (CHOOSE e \in defined : TRUE)[1]

ACCESS_REQUEST == CodeProperty("ACCESS_REQUEST")
ACCESS_ACCEPT == CodeProperty("ACCESS_ACCEPT")
ACCESS_REJECT == CodeProperty("ACCESS_REJECT")
ACCOUNTING_REQUEST == CodeProperty("ACCOUNTING_REQUEST")
ACCOUNTING_RESPONSE == CodeProperty("ACCOUNTING_RESPONSE")
ACCESS_CHALLENGE == CodeProperty("ACCESS_CHALLENGE")
STATUS_SERVER == CodeProperty("STATUS_SERVER")
\* lib/server.js reads Code.SERVER_STATUS in defaultResponse
SERVER_STATUS == CodeProperty("SERVER_STATUS")

(***************************************************************************)
(* The client's configuration and the datagrams its socket may be handed.  *)
(***************************************************************************)
AUTH_PORT == 1812
ACCT_PORT == 1813

\* server n of the list has address n + 1 and secret n + 1; with fewer than
\* MaxServers servers the other addresses are hosts that are no server of
\* the list, the other secrets secrets that no server has.
Addresses == 1 .. MaxServers
Secrets == 1 .. MaxServers

\* the values Math.floor(Math.random() * 256) is drawn from here
IdSeeds == {0, 255}

\* the values RadiusPacket.randomAuthenticator() is drawn from here
Authenticators == {"ra1", "ra2"}

\* the request codes a caller passes to request()
RequestCodes == {ACCESS_REQUEST, ACCOUNTING_REQUEST, STATUS_SERVER}

\* the codes of the datagrams that arrive at the client's socket
ResponseCodes == {ACCESS_ACCEPT, ACCESS_REJECT, ACCOUNTING_RESPONSE, ACCESS_CHALLENGE}

\* What RadiusPacket.fromWire does with a datagram: it returns a packet, it
\* throws (a short buffer, a length mismatch, an unknown code, an attribute
\* that does not decode), or, for a datagram that ends fewer than three
\* bytes after its last attribute, parseAttributes never returns.
ParseOutcomes == {"packet", "throws", "loops"}

\* crypto.createHash('md5') over the concatenation of the parts: an ideal
\* hash, equal on equal inputs only.
MD5(parts) == <<"md5", parts>>

\* an authenticator field that is no digest of anything
Junk == <<"junk">>

\* The datagrams the network may deliver: any source, any parse outcome, any
\* code and identifier, and an authenticator field that is the response
\* authenticator some signer computed for this header over some request
\* authenticator and secret, or junk.
AuthenFields(c, i) ==
    { MD5(<<c, i, ra, "attrs", s>>) : ra \in Authenticators, s \in Secrets }
        \cup {Junk}

Datagrams ==
    UNION { { [address |-> a, port |-> p, parses |-> ok, code |-> c,
               identifier |-> i, attrs |-> "attrs", authen |-> d] :
                a \in Addresses, p \in {AUTH_PORT, ACCT_PORT}, ok \in ParseOutcomes,
                d \in AuthenFields(c, i) } :
            c \in ResponseCodes, i \in IdSeeds }

VARIABLES
    servers,    \* client_state.servers: [server, secret, auth, acct, id]
    retry,      \* client_state.retry
    code,       \* _request: the canonicalised request code, 0 before a request
    state,      \* _request: the per-server state remembered between attempts,
                \* a function of the indices whose state has been built
    timer,      \* _request: the retry timer
    current,    \* _request: the index of the state of the attempt last sent,
                \* -1 for the empty object it starts as
    attempt,    \* _request: the attempt counter
    socket,     \* the per-request socket: "none", "open", "closed"
    promise,    \* the promise _request returns
    result,     \* the value the promise was settled with
    sent,       \* the datagrams the socket has sent, in order
    uncaught,   \* exceptions thrown out of the timer callback
    process     \* the process the client runs in: "running", "exited" once
                \* an uncaught exception has ended it, "looping" once a call
                \* that never returns has been entered

VARIABLES
    clients,        \* state.clients: the map from a client's address to its secret
    handlers,       \* state.handlers: for each handler, which hooks it has
    sockets,        \* the auth and the acct socket: "none", "bound", "closed"
    txns,           \* one record for each datagram the sockets were handed
    out,            \* the datagrams the sockets have sent, in order
    serverProcess   \* the process the server runs in: "running", "looping"

VARIABLES
    packets,    \* a packet RadiusPacket.fromWire produced ("decoded") and one
                \* the constructor produced ("built")
    wire,       \* what the datagram given to fromWire held
    lastCall,   \* the last operation on a packet and the error it threw
    added       \* the attributes the calls to add that returned were given

serverVars == <<clients, handlers, sockets, txns, out, serverProcess>>

clientVars == <<servers, retry, code, state, timer, current, attempt, socket,
                promise, result, sent, uncaught, process>>

VARIABLES
    dict,         \* dictionary.js dict: the entries by numeric id (byId) and
                  \* by lower-cased name (byName)
    vendors,      \* dictionary.js vendors: the vendors by id and by name
    vsas,         \* dictionary.js vsas: for each vendor id, its entries by sub-id
    instances,    \* for each lower-cased name, how many DictionaryEntry or
                  \* Vendor objects were made with it: an object is told
                  \* from every other by its name and its number among these
    loaded,       \* the files load() was called with, in order
    lastLookup,   \* the last lookup: the call, the error thrown or the
                  \* object returned
    dictProcess   \* "running", "exited" once a parser error has ended it

packetVars == <<packets, wire, lastCall, added>>

dictVars == <<dict, vendors, vsas, instances, loaded, lastLookup, dictProcess>>

\* a function of the library applied to an argument
VARIABLES
    applied,      \* the function applied last and the argument it was given
    returned      \* what it returned, or the error it threw

\* Buffers as Node has them: a Buffer is a window on memory, and two Buffers
\* on the same memory see each other's writes
VARIABLES
    memory,       \* the memory allocated, in order of allocation
    held,         \* the Buffers the caller holds
    closure       \* what the closures of the objects made hold: buf of an
                  \* ABuffer value, authenticator of a RadiusPacket

heapVars == <<memory, held, closure>>

\* several requests of one client at once
VARIABLES
    requests,     \* per request of _request: state (by server), attempt, and
                  \* whether the promise is settled
    taken         \* the identifiers getState took, in the order it took them

requestVars == <<requests, taken>>

callVars == <<applied, returned, heapVars, requestVars>>

libVars == <<packetVars, dictVars, callVars>>

vars == <<clientVars, serverVars, libVars>>

slen == Cardinality(DOMAIN servers)
max == retry * slen

\* RadiusClient#addServer, called once per server by the constructor and
\* then by the caller: the list after construction, no request made yet.
ClientInit ==
    /\ \E k \in 1 .. MaxServers :
         servers \in [0 .. (k - 1) -> [server : Addresses, secret : Secrets,
                                      auth : {AUTH_PORT}, acct : {ACCT_PORT},
                                      id : IdSeeds]]
    /\ \A n \in DOMAIN servers :
         servers[n].server = n + 1 /\ servers[n].secret = n + 1
    /\ retry \in 1 .. MaxRetry
    /\ code = 0
    /\ state = <<>>
    /\ timer = Undefined
    /\ current = -1
    /\ attempt = 0
    /\ socket = "none"
    /\ promise = "none"
    /\ result = [kind |-> "none"]
    /\ sent = <<>>
    /\ uncaught = 0
    /\ process = "running"

\* getState(n): the state built for server n on its first use
NewState(n, c, ra) ==
    [code |-> c,
     identifier |-> servers[n].id % 256,
     authenticator |-> ra,
     address |-> servers[n].server,
     port |-> IF c = ACCOUNTING_REQUEST THEN servers[n].acct ELSE servers[n].auth,
     secret |-> servers[n].secret,
     buffer |-> [code |-> c, identifier |-> servers[n].id % 256,
                 authenticator |-> ra]]

\* a selection that forgets the round robin
TargetFirst(att) == 0

\* send(): the server selected for an attempt
Target(att) == att % slen

\* a send() that builds the state of the server anew at every attempt
SendRebuilding(att, c, sock) ==
    \E ra \in Authenticators :
      LET n == Target(att)
          st == NewState(n, c, ra)
      IN  /\ state' = (n :> st) @@ state
          /\ servers' = [servers EXCEPT ![n].id = @ + 1]
          /\ current' = n
          /\ timer' = "pending"
          /\ IF sock = "open"
               THEN /\ sent' = Append(sent, [address |-> st.address,
                                             port |-> st.port, buffer |-> st.buffer])
                    /\ uncaught' = uncaught
                    /\ process' = process
               ELSE /\ sent' = sent
                    /\ uncaught' = uncaught + 1
                    /\ process' \in {"running", "exited"}

\* send(): select the state (building it on first use, which takes an
\* identifier from the server's counter), arm the timer, send the cached
\* buffer.  socket.send throws when the socket is closed; the exception
\* leaves the timer callback uncaught, which ends the process unless the
\* embedding program handles it.
Send(att, c, sock) ==
    \E ra \in Authenticators :
      LET n == Target(att)
          fresh == n \notin DOMAIN state
          st == IF fresh THEN NewState(n, c, ra) ELSE state[n]
      IN  /\ state' = IF fresh THEN state @@ (n :> st) ELSE state
          /\ servers' = IF fresh
                          THEN [servers EXCEPT ![n].id = @ + 1]
                          ELSE servers
          /\ current' = n
          /\ timer' = "pending"
          /\ IF sock = "open"
               THEN /\ sent' = Append(sent, [address |-> st.address,
                                             port |-> st.port, buffer |-> st.buffer])
                    /\ uncaught' = uncaught
                    /\ process' = process
               ELSE /\ sent' = sent
                    /\ uncaught' = uncaught + 1
                    /\ process' \in {"running", "exited"}

\* RadiusClient#request: the executor of the promise runs to its end, the
\* first send included.
Request(c) ==
    /\ process = "running"
    /\ promise = "none"
    /\ code' = c
    /\ socket' = "open"
    /\ promise' = "pending"
    /\ attempt' = 0
    /\ Send(0, c, "open")
    /\ UNCHANGED <<retry, result>>
    /\ UNCHANGED <<serverVars, libVars>>

\* the checks of socket.on('message') that a datagram must pass
FromExpectedSource(m) ==
    /\ current \in DOMAIN state
    /\ m.address = state[current].address
    /\ m.port = state[current].port

\* a handler that skips the identifier check
IdentifierAny(m) == TRUE

IdentifierMatches(m) == m.identifier = state[current].identifier

\* a handler that skips the signature check
AuthenticatorUnchecked(m) == TRUE

\* the digest of bytes 0..3, the request authenticator, bytes 20.. and the
\* secret, compared with bytes 4..19
AuthenticatorValid(m) ==
    m.authen = MD5(<<m.code, m.identifier, state[current].authenticator,
                     m.attrs, state[current].secret>>)

PassesChecks(m) ==
    /\ FromExpectedSource(m)
    /\ m.parses = "packet"
    /\ IdentifierMatches(m)
    /\ AuthenticatorValid(m)

\* a datagram from the expected source is handed to RadiusPacket.fromWire
EntersLoop(m) == FromExpectedSource(m) /\ m.parses = "loops"

\* a mapping that also resolves an Access-Request on an Access-Challenge
ResponseActionChallenge(req_code, res_code) ==
    IF req_code = "Access-Request"
      THEN (IF res_code \in {"Access-Accept", "Access-Challenge"} THEN "resolve"
            ELSE IF res_code = "Access-Reject" THEN "reject"
            ELSE Undefined)
    ELSE IF req_code = "Accounting-Request"
      THEN (IF res_code = "Accounting-Response" THEN "resolve" ELSE Undefined)
    ELSE Undefined

\* the action chosen from the request code and the response code
ResponseAction(req_code, res_code) ==
    IF req_code = "Access-Request"
      THEN (IF res_code = "Access-Accept" THEN "resolve"
            ELSE IF res_code = "Access-Reject" THEN "reject"
            ELSE Undefined)
    ELSE IF req_code = "Accounting-Request"
      THEN (IF res_code = "Accounting-Response" THEN "resolve" ELSE Undefined)
    ELSE Undefined

\* resolve / reject of a promise: a settled promise stays as it is
Settle(how, value) ==
    IF promise = "pending"
      THEN promise' = how /\ result' = value
      ELSE UNCHANGED <<promise, result>>

\* an accepted response that leaves the timer armed
AcceptNoClear(action, m) ==
    /\ timer' = timer
    /\ socket' = "closed"
    /\ IF promise = "pending"
         THEN /\ promise' = (IF action = "resolve" THEN "resolved" ELSE "rejected")
              /\ result' = [kind |-> "packet", packet |-> m]
         ELSE UNCHANGED <<promise, result>>

\* what an accepted response does: clearTimeout(timer); socket.close();
\* action(res)
Accept(action, m) ==
    /\ timer' = "cleared"
    /\ socket' = "closed"
    /\ Settle(IF action = "resolve" THEN "resolved" ELSE "rejected",
              [kind |-> "packet", packet |-> m])

\* socket.on('message'): a datagram is handed to the open socket
OnMessage(m) ==
    /\ process = "running"
    /\ socket = "open"
    /\ IF PassesChecks(m)
         THEN LET action == ResponseAction(CodeToString(code), CodeToString(m.code))
              IN  IF action # Undefined
                    THEN Accept(action, m)
                    ELSE UNCHANGED <<timer, socket, promise, result>>
         ELSE UNCHANGED <<timer, socket, promise, result>>
    /\ process' = IF EntersLoop(m) THEN "looping" ELSE process
    /\ UNCHANGED <<servers, retry, code, state, current, attempt, sent, uncaught>>
    /\ UNCHANGED <<serverVars, libVars>>

\* socket.on('error'): socket.close(); reject(e)
OnError ==
    /\ process = "running"
    /\ socket = "open"
    /\ socket' = "closed"
    /\ Settle("rejected", [kind |-> "error", error |-> "socket"])
    /\ UNCHANGED <<servers, retry, code, state, timer, current, attempt, sent,
                   uncaught, process>>
    /\ UNCHANGED <<serverVars, libVars>>

\* a last attempt that closes the socket and forgets to reject
ExpireNoReject ==
    IF socket = "open"
      THEN /\ socket' = "closed"
           /\ UNCHANGED <<promise, result, uncaught, process>>
      ELSE /\ uncaught' = uncaught + 1
           /\ process' \in {"running", "exited"}
           /\ UNCHANGED <<socket, promise, result>>

\* a last attempt that rejects and leaves the socket open
ExpireNoClose ==
    /\ IF promise = "pending"
         THEN /\ promise' = "rejected"
              /\ result' = [kind |-> "error", error |-> "timeout"]
         ELSE UNCHANGED <<promise, result>>
    /\ UNCHANGED <<socket, uncaught, process>>

\* the timer callback's last attempt: socket.close(); reject(timeout).
\* socket.close throws when the socket is closed already.
Expire ==
    IF socket = "open"
      THEN /\ socket' = "closed"
           /\ Settle("rejected", [kind |-> "error", error |-> "timeout"])
           /\ UNCHANGED <<uncaught, process>>
      ELSE /\ uncaught' = uncaught + 1
           /\ process' \in {"running", "exited"}
           /\ UNCHANGED <<socket, promise, result>>

\* the callback of setTimeout in send()
OnTimeout ==
    /\ process = "running"
    /\ timer = "pending"
    /\ attempt' = attempt + 1
    /\ IF attempt + 1 < max
         THEN /\ Send(attempt + 1, code, socket)
              /\ UNCHANGED <<socket, promise, result>>
         ELSE /\ timer' = Undefined
              /\ Expire
              /\ UNCHANGED <<servers, state, current, sent>>
    /\ UNCHANGED <<retry, code>>
    /\ UNCHANGED <<serverVars, libVars>>

ClientNext ==
    \/ \E c \in RequestCodes : Request(c)
    \/ \E m \in Datagrams : OnMessage(m)
    \/ OnError
    \/ OnTimeout

(***************************************************************************)
(* The server engine.                                                      *)
(***************************************************************************)
SocketTypes == {"auth", "acct"}

\* an attribute: the name of its dictionary entry and its value
Attr(name, value) == [name |-> name, value |-> value]

\* the addresses datagrams come from, and the secrets addClient is given
ClientAddresses == {1, 2}
ClientSecrets == {1, 2}

\* The datagrams the server's sockets may be handed.  Address 1 sends
\* requests without attributes of codes that have a default response, of a
\* code that has none (Access-Accept) and of a code that is not in the code
\* table (99), requests with attributes, and two datagrams that
\* RadiusPacket.fromWire does not decode.  Address 2 sends an Access-Request.
RequestShapes ==
    { [port |-> 5001, identifier |-> 7, authenticator |-> "ra1",
       attributes |-> <<>>],
      [port |-> 5002, identifier |-> 8, authenticator |-> "ra2",
       attributes |-> <<Attr("Proxy-State", "a"), Attr("User-Name", "u"),
                        Attr("Proxy-State", "b")>>] }

RequestDatagram(a, c, shape, outcome) ==
    [address |-> a, port |-> shape.port, code |-> c,
     identifier |-> shape.identifier, authenticator |-> shape.authenticator,
     attributes |-> shape.attributes, parses |-> outcome]

PlainShape == CHOOSE shape \in RequestShapes : shape.attributes = <<>>

ServerDatagrams ==
    { RequestDatagram(1, c, PlainShape, "packet") :
        c \in {ACCESS_REQUEST, ACCOUNTING_REQUEST, STATUS_SERVER, ACCESS_ACCEPT, 99} }
    \cup { RequestDatagram(1, c, shape, "packet") :
             c \in {ACCESS_REQUEST, ACCOUNTING_REQUEST},
             shape \in RequestShapes \ {PlainShape} }
    \cup { RequestDatagram(1, ACCESS_REQUEST, PlainShape, outcome) :
             outcome \in {"throws", "loops"} }
    \cup { RequestDatagram(2, ACCESS_REQUEST, PlainShape, "packet") }

\* The handlers use() is given, each with the hooks it has and with what its
\* hooks do to res: one has an auth hook only and turns the response into an
\* Access-Accept, the other has both hooks and adds a Reply-Message.
HandlerKinds ==
    { [auth |-> TRUE, acct |-> FALSE, effect |-> "accept"],
      [auth |-> TRUE, acct |-> TRUE, effect |-> "add"] }

\* the packet of a transaction that has none
NoPacket == [code |-> 0, identifier |-> 0, authenticator |-> "", attributes |-> <<>>]

\* new RadiusServer(): no client, no handler, no socket
ServerInit ==
    /\ clients = <<>>
    /\ handlers = <<>>
    /\ sockets = [t \in SocketTypes |-> "none"]
    /\ txns = <<>>
    /\ out = <<>>
    /\ serverProcess = "running"

\* RadiusServer#addClient
AddClient(client, secret) ==
    /\ serverProcess = "running"
    /\ clients' = (client :> secret) @@ clients
    /\ UNCHANGED <<handlers, sockets, txns, out, serverProcess>>
    /\ UNCHANGED <<clientVars, libVars>>

\* RadiusServer#use
Use(handler) ==
    /\ serverProcess = "running"
    /\ Len(handlers) < MaxHandlers
    /\ handlers' = Append(handlers, handler)
    /\ UNCHANGED <<clients, sockets, txns, out, serverProcess>>
    /\ UNCHANGED <<clientVars, libVars>>

\* RadiusServer#start: startServer('auth', ...) and startServer('acct', ...)
Start ==
    /\ serverProcess = "running"
    /\ \A t \in SocketTypes : sockets[t] = "none"
    /\ sockets' = [t \in SocketTypes |-> "bound"]
    /\ UNCHANGED <<clients, handlers, txns, out, serverProcess>>
    /\ UNCHANGED <<clientVars, libVars>>

\* startServer: socket.on('error')
ServerSocketError(type) ==
    /\ serverProcess = "running"
    /\ sockets[type] = "bound"
    /\ sockets' = [sockets EXCEPT ![type] = "closed"]
    /\ UNCHANGED <<clients, handlers, txns, out, serverProcess>>
    /\ UNCHANGED <<clientVars, libVars>>

\* RadiusPacket.fromWire on the server: what the call does with a datagram.
\* The packet's constructor throws for a code that Code does not hold.
FromWire(d) ==
    IF d.parses = "packet" /\ d.code \notin Codes THEN "throws" ELSE d.parses

\* a getAll that returns every attribute of the packet
GetAllAttributes(attributes, name) == attributes

\* RadiusPacket#getAll
GetAll(attributes, name) == SelectSeq(attributes, LAMBDA a : a.name = name)

\* a defaultResponse that answers an Access-Request on the auth socket
\* with Access-Accept
DefaultCodeAccept(type, req_code) ==
    IF type = "auth"
      THEN (IF req_code = ACCESS_REQUEST THEN ACCESS_ACCEPT
            ELSE IF req_code = SERVER_STATUS THEN ACCESS_ACCEPT
            ELSE 0)
    ELSE IF type = "acct"
      THEN (IF req_code = ACCOUNTING_REQUEST THEN ACCOUNTING_RESPONSE ELSE 0)
    ELSE 0

\* defaultResponse: the code of the default response, 0 for none
DefaultCode(type, req_code) ==
    IF type = "auth"
      THEN (IF req_code = ACCESS_REQUEST THEN ACCESS_REJECT
            ELSE IF req_code = SERVER_STATUS THEN ACCESS_ACCEPT
            ELSE 0)
    ELSE IF type = "acct"
      THEN (IF req_code = ACCOUNTING_REQUEST THEN ACCOUNTING_RESPONSE ELSE 0)
    ELSE 0

\* defaultResponse: the packet built once a code was found
DefaultResponse(type, req) ==
    [code |-> DefaultCode(type, req.code),
     identifier |-> req.identifier,
     authenticator |-> req.authenticator,
     attributes |-> GetAll(req.attributes, "Proxy-State")]

\* a toWire that encodes as for a request: the authenticator field is the
\* packet's own authenticator
ToWireAsRequest(res, secret) ==
    [code |-> res.code, identifier |-> res.identifier,
     attributes |-> res.attributes,
     authen |-> <<"plain", <<res.authenticator>>>>]

\* RadiusPacket#toWire(secret): the response authenticator over the header,
\* the request authenticator, the attributes and the secret
ToWire(res, secret) ==
    [code |-> res.code, identifier |-> res.identifier,
     attributes |-> res.attributes,
     authen |-> MD5(<<res.code, res.identifier, res.authenticator,
                      res.attributes, secret>>)]

\* an invokeHandlers that takes the handlers from the end of the list
NextHookLast(type, i) ==
    LET hooks == { j \in i .. Len(handlers) : handlers[j][type] }
    IN  IF hooks = {} THEN 0 ELSE CHOOSE j \in hooks : \A k \in hooks : j >= k

\* invokeHandlers: the next handler at or after position i that has a hook
\* for the type, 0 when the iteration ends
NextHook(type, i) ==
    LET hooks == { j \in i .. Len(handlers) : handlers[j][type] }
    IN  IF hooks = {} THEN 0 ELSE CHOOSE j \in hooks : \A k \in hooks : j <= k

\* a send that encodes the response with the secret the client has when
\* the response is sent
TransmitLatestSecret(t, txn) ==
    IF sockets[txn.type] = "bound"
      THEN /\ txns' = (t :> [txn EXCEPT !.status = "sent"]) @@ txns
           /\ out' = Append(out, [txn |-> t, type |-> txn.type,
                                  address |-> txn.address, port |-> txn.port,
                                  buffer |-> ToWire(txn.res,
                                                    clients[txn.address])])
      ELSE /\ txns' = (t :> [txn EXCEPT !.status = "send-failed"]) @@ txns
           /\ out' = out

\* startServer: res.toWire(secret) and socket.send(buffer, rinfo.port,
\* client); the send of a closed socket throws into the handler's catch
Transmit(t, txn) ==
    IF sockets[txn.type] = "bound"
      THEN /\ txns' = (t :> [txn EXCEPT !.status = "sent"]) @@ txns
           /\ out' = Append(out, [txn |-> t, type |-> txn.type,
                                  address |-> txn.address, port |-> txn.port,
                                  buffer |-> ToWire(txn.res, txn.secret)])
      ELSE /\ txns' = (t :> [txn EXCEPT !.status = "send-failed"]) @@ txns
           /\ out' = out

\* getResponse once res exists: a Status-Server request bypasses the
\* handlers; invokeHandlers calls the first hook, if any, and awaits it
Dispatch(t, txn) ==
    LET first == IF txn.req.code # STATUS_SERVER THEN NextHook(txn.type, 1) ELSE 0
    IN  IF first = 0
          THEN Transmit(t, txn)
          ELSE /\ txns' = (t :> [txn EXCEPT !.status = "awaiting",
                                             !.running = first,
                                             !.log = Append(@, <<"call", first>>)])
                            @@ txns
               /\ out' = out

\* a server that takes every source for a client
KnownClientAny(address) == TRUE

\* startServer: state.clients.has(client)
KnownClient(address) == address \in DOMAIN clients

\* startServer: state.clients.get(client), 0 for undefined
ClientSecret(address) ==
    IF address \in DOMAIN clients THEN clients[address] ELSE 0

\* startServer: socket.on('message'), up to the first await that suspends
ServerMessage(type, d) ==
    /\ serverProcess = "running"
    /\ sockets[type] = "bound"
    /\ Len(txns) < MaxDatagrams
    /\ LET t == Len(txns) + 1
           known == KnownClient(d.address)
           txn == [type |-> type, address |-> d.address, port |-> d.port,
                   secret |-> ClientSecret(d.address),
                   req |-> NoPacket, res |-> NoPacket, running |-> 0,
                   log |-> <<>>, status |-> "received"]
           req == [code |-> d.code, identifier |-> d.identifier,
                   authenticator |-> d.authenticator, attributes |-> d.attributes]
           parsed == [txn EXCEPT !.req = req]
       IN  IF ~known
             THEN /\ txns' = Append(txns, [txn EXCEPT !.status = "unknown-client"])
                  /\ UNCHANGED <<out, serverProcess>>
           ELSE IF FromWire(d) = "throws"
             THEN /\ txns' = Append(txns, [txn EXCEPT !.status = "unparseable"])
                  /\ UNCHANGED <<out, serverProcess>>
           ELSE IF FromWire(d) = "loops"
             THEN /\ txns' = Append(txns, [txn EXCEPT !.status = "parsing"])
                  /\ serverProcess' = "looping"
                  /\ out' = out
           ELSE IF DefaultCode(type, req.code) = 0
             THEN /\ txns' = Append(txns, [parsed EXCEPT !.status = "unexpected-code"])
                  /\ UNCHANGED <<out, serverProcess>>
           ELSE /\ Dispatch(t, [parsed EXCEPT !.res = DefaultResponse(type, req)])
                /\ serverProcess' = serverProcess
    /\ UNCHANGED <<clients, handlers, sockets>>
    /\ UNCHANGED <<clientVars, libVars>>

\* what a hook does to res before it returns
ApplyEffect(res, effect) ==
    CASE effect = "accept" -> [res EXCEPT !.code = ACCESS_ACCEPT]
      [] effect = "add" ->
           [res EXCEPT !.attributes = Append(@, Attr("Reply-Message", "m"))]
      [] OTHER -> res

\* how a hook ends: it returns a falsy or a truthy value, or it throws (or
\* the promise it returned rejects)
HookOutcomes == {"falsy", "truthy", "throws"}

\* a getResponse that returns res although a hook has thrown
HookReturnsAnyway(t, outcome) ==
    /\ serverProcess = "running"
    /\ t \in DOMAIN txns
    /\ txns[t].status = "awaiting"
    /\ LET effect == handlers[txns[t].running].effect
           txn == [txns[t] EXCEPT !.res = ApplyEffect(@, effect),
                                  !.log = Append(@, <<"return", txns[t].running,
                                                    outcome>>),
                                  !.running = 0]
           next == NextHook(txn.type, txns[t].running + 1)
       IN  IF outcome \in {"truthy", "throws"} \/ next = 0
             THEN Transmit(t, txn)
           ELSE /\ txns' = [txns EXCEPT ![t] =
                             [txn EXCEPT !.status = "awaiting", !.running = next,
                                         !.log = Append(@, <<"call", next>>)]]
                /\ out' = out
    /\ UNCHANGED <<clients, handlers, sockets, serverProcess>>
    /\ UNCHANGED <<clientVars, libVars>>

\* the awaited hook of transaction t ends: invokeHandlers goes on to the
\* next hook, or breaks, or getResponse catches what was thrown
HookReturns(t, outcome) ==
    /\ serverProcess = "running"
    /\ t \in DOMAIN txns
    /\ txns[t].status = "awaiting"
    /\ LET effect == handlers[txns[t].running].effect
           txn == [txns[t] EXCEPT !.res = ApplyEffect(@, effect),
                                  !.log = Append(@, <<"return", txns[t].running,
                                                    outcome>>),
                                  !.running = 0]
           next == NextHook(txn.type, txns[t].running + 1)
       IN  IF outcome = "throws"
             THEN /\ txns' = [txns EXCEPT ![t] = [txn EXCEPT !.status = "aborted"]]
                  /\ out' = out
           ELSE IF outcome = "truthy" \/ next = 0
             THEN Transmit(t, txn)
           ELSE /\ txns' = [txns EXCEPT ![t] =
                             [txn EXCEPT !.status = "awaiting", !.running = next,
                                         !.log = Append(@, <<"call", next>>)]]
                /\ out' = out
    /\ UNCHANGED <<clients, handlers, sockets, serverProcess>>
    /\ UNCHANGED <<clientVars, libVars>>

ServerNext ==
    \/ \E secret \in ClientSecrets : AddClient(1, secret)
    \/ \E handler \in HandlerKinds : Use(handler)
    \/ Start
    \/ \E type \in SocketTypes : ServerSocketError(type)
    \/ \E type \in SocketTypes, d \in ServerDatagrams : ServerMessage(type, d)
    \/ \E t \in 1 .. MaxDatagrams, outcome \in HookOutcomes :
         HookReturns(t, outcome)

(***************************************************************************)
(* lib/packet.js and lib/attrlist.js: packets and their attribute lists.   *)
(***************************************************************************)
\* new AttributeList(attrs, readonly): a copy of the array and the flag
NewAttributeList(attrs, readonly) == [list |-> attrs, readonly |-> readonly]

\* AttributeList#[Symbol.iterator]: what iterating the list yields, in order
Iterate(attributes) == attributes.list

\* an addAttribute that puts the attribute at the head of the list
AddAttributeFirst(list, attr) == <<attr>> \o list

\* addAttribute: list.push(attr)
AddAttribute(list, attr) == Append(list, attr)

\* the names the loaded dictionary knows
AttributeNames == {"User-Name", "Proxy-State", "Reply-Message"}

\* what callers give add(): attributes of a known name, and a name that
\* new Attribute() does not find in the dictionary
AddArguments ==
    {Attr("User-Name", "u"), Attr("Proxy-State", "a"), Attr("XYZZY", "x")}

\* what callers assign to packet.code: codes, and a number that is no code
CodeValues == {ACCESS_ACCEPT, ACCESS_CHALLENGE, 99}

\* parseCode: the Code of a value, 0 where Code.from throws
ParseCode(v) == IF v \in Codes THEN v ELSE 0

\* what callers assign to packet.authenticator: 16-byte Buffers, a shorter
\* Buffer and a string
AuthenticatorValues == Authenticators \cup {"short", "text"}

\* parseAuthenticator: the error it throws for a value, if any
ParseAuthenticator(v) ==
    CASE v = "text" -> "TypeError"
      [] v = "short" -> "RangeError"
      [] OTHER -> "none"

\* new RadiusPacket(code, id, authenticator, attrs): code and authenticator
\* are accessors with a setter, identifier and attributes are not writable
NewPacket(c, id, authenticator, attrs) ==
    [code |-> c, identifier |-> id, authenticator |-> authenticator,
     attributes |-> attrs, codeSetter |-> TRUE, authenticatorSetter |-> TRUE]

\* a fromWire that returns the packet as the constructor made it
PacketFromWireAsBuilt(d) ==
    NewPacket(d.code, d.identifier, d.authenticator,
              NewAttributeList(d.attributes, FALSE))

\* RadiusPacket.fromWire for a datagram it decodes: the attribute list is
\* read-only and the two setters are removed
PacketFromWire(d) ==
    [NewPacket(d.code, d.identifier, d.authenticator,
               NewAttributeList(d.attributes, TRUE))
       EXCEPT !.codeSetter = FALSE, !.authenticatorSetter = FALSE]

\* the packets fromWire is given
WirePackets ==
    [code : {ACCESS_REQUEST, ACCOUNTING_REQUEST}, identifier : {0, 255},
     authenticator : Authenticators,
     attributes : {<<>>, <<Attr("Proxy-State", "a"), Attr("User-Name", "u")>>}]

PacketTargets == {"decoded", "built"}

NoCall == [op |-> "none", target |-> "none", error |-> "none"]

\* no packet has been made
PacketIdle ==
    /\ packets = <<>>
    /\ wire = NoPacket
    /\ lastCall = NoCall
    /\ added = <<>>

\* a request has been decoded and the response to it built, as
\* defaultResponse builds it
PacketInit ==
    /\ wire \in WirePackets
    /\ packets = [target \in PacketTargets |->
                   IF target = "decoded" THEN PacketFromWire(wire)
                   ELSE NewPacket(ACCESS_REJECT, wire.identifier,
                                  wire.authenticator,
                                  NewAttributeList(<<>>, FALSE))]
    /\ lastCall = NoCall
    /\ added = <<>>

\* packet.code = v.  An accessor without a setter ignores the assignment in
\* sloppy code and throws a TypeError in strict code.
AssignCode(target, v) ==
    /\ target \in DOMAIN packets
    /\ IF ~packets[target].codeSetter
         THEN /\ packets' = packets
              /\ \E e \in {"none", "TypeError"} :
                   lastCall' = [op |-> "code", target |-> target, error |-> e]
       ELSE IF ParseCode(v) = 0
         THEN /\ packets' = packets
              /\ lastCall' = [op |-> "code", target |-> target,
                              error |-> "RangeError"]
       ELSE /\ packets' = [packets EXCEPT ![target].code = ParseCode(v)]
            /\ lastCall' = [op |-> "code", target |-> target, error |-> "none"]
    /\ UNCHANGED <<wire, added>>
    /\ UNCHANGED <<clientVars, serverVars, dictVars, callVars>>

\* packet.authenticator = v
AssignAuthenticator(target, v) ==
    /\ target \in DOMAIN packets
    /\ IF ~packets[target].authenticatorSetter
         THEN /\ packets' = packets
              /\ \E e \in {"none", "TypeError"} :
                   lastCall' = [op |-> "authenticator", target |-> target,
                                error |-> e]
       ELSE IF ParseAuthenticator(v) # "none"
         THEN /\ packets' = packets
              /\ lastCall' = [op |-> "authenticator", target |-> target,
                              error |-> ParseAuthenticator(v)]
       ELSE /\ packets' = [packets EXCEPT ![target].authenticator = v]
            /\ lastCall' = [op |-> "authenticator", target |-> target,
                            error |-> "none"]
    /\ UNCHANGED <<wire, added>>
    /\ UNCHANGED <<clientVars, serverVars, dictVars, callVars>>

\* packet.add(id, value): AttributeList#add and addAttribute
Add(target, attr) ==
    /\ target \in DOMAIN packets
    /\ packets[target].attributes.readonly \/ Len(added) < MaxAdds
    /\ IF packets[target].attributes.readonly
         THEN /\ UNCHANGED <<packets, added>>
              /\ lastCall' = [op |-> "add", target |-> target, error |-> "Error"]
       ELSE IF attr.name \notin AttributeNames
         THEN /\ UNCHANGED <<packets, added>>
              /\ lastCall' = [op |-> "add", target |-> target,
                              error |-> "RangeError"]
       ELSE /\ packets' = [packets EXCEPT ![target].attributes.list =
                                            AddAttribute(@, attr)]
            /\ added' = Append(added, attr)
            /\ lastCall' = [op |-> "add", target |-> target, error |-> "none"]
    /\ wire' = wire
    /\ UNCHANGED <<clientVars, serverVars, dictVars, callVars>>

PacketNext ==
    \/ \E target \in PacketTargets, v \in CodeValues : AssignCode(target, v)
    \/ \E target \in PacketTargets, v \in AuthenticatorValues :
         AssignAuthenticator(target, v)
    \/ \E target \in PacketTargets, attr \in AddArguments : Add(target, attr)

(***************************************************************************)
(* lib/dictionary.js: the registry of attribute descriptors and vendors.   *)
(***************************************************************************)
\* the numeric id of every vendor-specific attribute
VENDOR_SPECIFIC == 26

\* the names of synthesised entries
UnknownAttribute(id) == "Unknown-Attribute-" \o ToString(id)
VendorName(id) == "Vendor" \o ToString(id)
VendorUnknownAttribute(name, sub_id) ==
    name \o "-Unknown-Attribute-" \o ToString(sub_id)

\* the ids, vendor ids and sub-ids that lookups and files name
AttributeIds == {1, VENDOR_SPECIFIC}
VendorIds == {4846, 100}
SubIds == {8, 9}

\* String#toLowerCase on the names that occur: the pairs of a name written
\* with capitals and its lower-cased form; any other name is lower-case
LowerCased ==
    { <<"User-Name", "user-name">>, <<"USER-NAME", "user-name">>,
      <<"Vendor-Specific", "vendor-specific">>, <<"XYZZY", "xyzzy">>,
      <<"Lucent", "lucent">>, <<"Vendor100", "vendor100">>,
      <<"Lucent-User-Priority", "lucent-user-priority">> }
    \cup { <<UnknownAttribute(id), "unknown-attribute-" \o ToString(id)>> :
             id \in AttributeIds }
    \cup { <<VendorUnknownAttribute("Lucent", sub),
              "lucent-unknown-attribute-" \o ToString(sub)>> : sub \in SubIds }
    \cup { <<VendorUnknownAttribute("Vendor100", sub),
              "vendor100-unknown-attribute-" \o ToString(sub)>> : sub \in SubIds }

ToLowerCase(name) ==
    IF \E pair \in LowerCased : pair[1] = name
      THEN (CHOOSE pair \in LowerCased : pair[1] = name)[2]
    ELSE name

\* no object: what a Map returns for a key it does not hold
NoInstance == <<"", 0>>

\* new DictionaryEntry() or new Vendor() under a name: the object's identity
NewInstance(R, name) ==
    LET lname == ToLowerCase(name)
    IN  <<lname, IF lname \in DOMAIN R.instances THEN R.instances[lname] + 1
                 ELSE 1>>

Made(R, instance) == (instance[1] :> instance[2]) @@ R.instances

NoEntry ==
    [instance |-> NoInstance, name |-> "", id |-> 0, sub_id |-> 0, vendor |-> 0,
     type |-> ""]

\* the registry as the functions of dictionary.js pass it along: the three
\* maps, the count of objects made and the ParseError met, if any
Registry ==
    [dict |-> dict, vendors |-> vendors, vsas |-> vsas,
     instances |-> instances, error |-> "none"]

\* Map#set
MapSet(map, key, value) == (key :> value) @@ map

\* an addAttributeSpec that stores the entry in its table and not by name
AddAttributeSpecUnnamed(R, vendor, name, id, type) ==
    LET ent == [instance |-> NewInstance(R, name), name |-> name,
                id |-> (IF vendor = 0 THEN id ELSE VENDOR_SPECIFIC),
                sub_id |-> (IF vendor = 0 THEN 0 ELSE id),
                vendor |-> vendor, type |-> type]
        byId == IF vendor = 0 THEN MapSet(R.dict.byId, id, ent) ELSE R.dict.byId
        subs == IF vendor # 0 /\ vendor \in DOMAIN R.vsas
                  THEN MapSet(R.vsas, vendor, MapSet(R.vsas[vendor], id, ent))
                ELSE R.vsas
    IN  [R EXCEPT !.dict = [byId |-> byId, byName |-> R.dict.byName],
                  !.vsas = subs, !.instances = Made(R, ent.instance)]

\* addAttributeSpec: a new DictionaryEntry, stored under its sub-id in the
\* vendor's table or under its id in dict, and under its name in dict.
\* vendor is the vendor's id, 0 for none.
AddAttributeSpec(R, vendor, name, id, type) ==
    LET ent == [instance |-> NewInstance(R, name), name |-> name,
                id |-> (IF vendor = 0 THEN id ELSE VENDOR_SPECIFIC),
                sub_id |-> (IF vendor = 0 THEN 0 ELSE id),
                vendor |-> vendor, type |-> type]
        byId == IF vendor = 0 THEN MapSet(R.dict.byId, id, ent) ELSE R.dict.byId
        byName == MapSet(R.dict.byName, ToLowerCase(name), ent)
        subs == IF vendor # 0 /\ vendor \in DOMAIN R.vsas
                  THEN MapSet(R.vsas, vendor, MapSet(R.vsas[vendor], id, ent))
                ELSE R.vsas
    IN  [R EXCEPT !.dict = [byId |-> byId, byName |-> byName],
                  !.vsas = subs, !.instances = Made(R, ent.instance)]

\* an addVendor that takes a VENDOR line for an id that has a vendor
AddVendorAgain(R, name, id) ==
    LET vendor == [instance |-> NewInstance(R, name), name |-> name, id |-> id]
    IN  [R EXCEPT !.vsas = MapSet(@, id, <<>>),
                  !.vendors = [byId |-> MapSet(@.byId, id, vendor),
                               byName |-> MapSet(@.byName,
                                                 ToLowerCase(name), vendor)],
                  !.instances = Made(R, vendor.instance)]

\* addVendor: a ParseError for an id that has a vendor, else a new Vendor
\* under its id and its name and an empty table for its attributes
AddVendor(R, name, id) ==
    IF id \in DOMAIN R.vendors.byId
      THEN [R EXCEPT !.error = "ParseError"]
    ELSE LET vendor == [instance |-> NewInstance(R, name), name |-> name,
                        id |-> id]
         IN  [R EXCEPT !.vsas = MapSet(@, id, <<>>),
                       !.vendors = [byId |-> MapSet(@.byId, id, vendor),
                                    byName |-> MapSet(@.byName,
                                                      ToLowerCase(name), vendor)],
                       !.instances = Made(R, vendor.instance)]

\* the dictionary files: the lines readFile returns, keyword first
DictionaryFiles ==
    [rfc2865 |-> << <<"ATTRIBUTE", "User-Name", 1, "string">>,
                    <<"ATTRIBUTE", "Vendor-Specific", VENDOR_SPECIFIC, "vsa">> >>,
     lucent |-> << <<"VENDOR", "Lucent", 4846>>,
                   <<"BEGIN-VENDOR", "Lucent">>,
                   <<"ATTRIBUTE", "Lucent-User-Priority", 8, "integer">>,
                   <<"END-VENDOR">> >>]

\* load_impl: the lines of a file in turn, under the vendor a BEGIN-VENDOR
\* line opened; a ParseError ends the loop
RECURSIVE LoadImpl(_, _, _)
LoadImpl(R, vendor, lines) ==
    IF lines = <<>> \/ R.error # "none" THEN R
    ELSE LET line == Head(lines)
             keyword == line[1]
         IN  CASE keyword = "ATTRIBUTE" ->
                    LoadImpl(AddAttributeSpec(R, vendor, line[2], line[3], line[4]),
                             vendor, Tail(lines))
               [] keyword = "VENDOR" ->
                    LoadImpl(AddVendor(R, line[2], line[3]), vendor, Tail(lines))
               [] keyword = "BEGIN-VENDOR" ->
                    IF ToLowerCase(line[2]) \in DOMAIN R.vendors.byName
                      THEN LoadImpl(R, R.vendors.byName[ToLowerCase(line[2])].id,
                                    Tail(lines))
                    ELSE [R EXCEPT !.error = "ParseError"]
               [] keyword = "END-VENDOR" -> LoadImpl(R, 0, Tail(lines))
               [] OTHER -> LoadImpl(R, vendor, Tail(lines))

\* what callers pass to the lookups: an integer, a number that is no
\* integer, a string, or something else (undefined, a boolean, an object)
Number(n) == [kind |-> "number", number |-> n, text |-> ""]
Fraction == [kind |-> "fraction", number |-> 0, text |-> ""]
String(text) == [kind |-> "string", number |-> 0, text |-> text]
Other == [kind |-> "other", number |-> 0, text |-> ""]

GetArguments ==
    { Number(n) : n \in AttributeIds \cup {0, 256} }
    \cup { String(text) : text \in {"User-Name", "XYZZY", UnknownAttribute(1)} }
    \cup { Fraction, Other }

VendorArguments == { Number(n) : n \in VendorIds } \cup { String("Lucent"), Other }

VsaArguments ==
    { <<Number(4846), Number(8)>>, <<Number(4846), Number(9)>>,
      <<Number(100), Number(8)>>, <<Other, Number(8)>>, <<Number(100), Other>>,
      <<Number(100), Fraction>> }

\* what a lookup comes to: the registry after it, and the error thrown or
\* the number of the object returned
Returns(R, instance) == [registry |-> R, error |-> "none", instance |-> instance]
Throws(R, error) == [registry |-> R, error |-> error, instance |-> NoInstance]

\* a get that takes 0 for a legal id
GetFromZero(R, x) ==
    IF x.kind = "string"
      THEN (IF ToLowerCase(x.text) \in DOMAIN R.dict.byName
              THEN Returns(R, R.dict.byName[ToLowerCase(x.text)].instance)
            ELSE Throws(R, "RangeError"))
    ELSE IF x.kind = "other" \/ x.kind = "fraction" THEN Throws(R, "TypeError")
    ELSE IF x.number < 0 \/ x.number > 255 THEN Throws(R, "RangeError")
    ELSE LET R2 == IF x.number \in DOMAIN R.dict.byId THEN R
                   ELSE AddAttributeSpec(R, 0, UnknownAttribute(x.number),
                                         x.number, "octets")
         IN  Returns(R2, R2.dict.byId[x.number].instance)

\* Dictionary.get
DictionaryGet(R, x) ==
    IF x.kind = "string"
      THEN (IF ToLowerCase(x.text) \in DOMAIN R.dict.byName
              THEN Returns(R, R.dict.byName[ToLowerCase(x.text)].instance)
            ELSE Throws(R, "RangeError"))
    ELSE IF x.kind = "other" THEN Throws(R, "TypeError")
    ELSE IF x.kind = "fraction" THEN Throws(R, "TypeError")
    ELSE IF x.number < 1 \/ x.number > 255 THEN Throws(R, "RangeError")
    ELSE LET R2 == IF x.number \in DOMAIN R.dict.byId THEN R
                   ELSE AddAttributeSpec(R, 0, UnknownAttribute(x.number),
                                         x.number, "octets")
         IN  Returns(R2, R2.dict.byId[x.number].instance)

\* Dictionary.vendor
DictionaryVendor(R, x) ==
    IF x.kind \in {"string", "other"} THEN Throws(R, "TypeError")
    ELSE IF x.kind = "fraction" THEN Throws(R, "TypeError")
    ELSE LET R2 == IF x.number \in DOMAIN R.vendors.byId THEN R
                   ELSE AddVendor(R, VendorName(x.number), x.number)
         IN  Returns(R2, R2.vendors.byId[x.number].instance)

\* Dictionary.vsa
DictionaryVsa(R, vendor_id, sub_id) ==
    IF vendor_id.kind # "number" \/ sub_id.kind # "number"
      THEN Throws(R, "TypeError")
    ELSE LET Rv == DictionaryVendor(R, vendor_id).registry
             v == Rv.vendors.byId[vendor_id.number]
             R2 == IF sub_id.number \in DOMAIN Rv.vsas[v.id] THEN Rv
                   ELSE AddAttributeSpec(Rv, v.id,
                            VendorUnknownAttribute(v.name, sub_id.number),
                            sub_id.number, "octets")
         IN  Returns(R2, R2.vsas[v.id][sub_id.number].instance)

\* RadiusPacket#has, get and getAll on a list of attributes, each with the
\* DictionaryEntry it was made for (attr.dict) and a value: the error
\* Dictionary.get throws, or what the loop over the attributes returns
PacketHas(R, attributes, id) ==
    LET found == DictionaryGet(R, id)
    IN  [error |-> found.error,
         value |-> \E i \in DOMAIN attributes :
                     attributes[i].dict = found.instance]

PacketGet(R, attributes, id) ==
    LET found == DictionaryGet(R, id)
        matching == SelectSeq(attributes, LAMBDA a : a.dict = found.instance)
    IN  [error |-> found.error,
         value |-> IF matching = <<>> THEN <<>> ELSE <<Head(matching)>>]

PacketGetAll(R, attributes, id) ==
    LET found == DictionaryGet(R, id)
    IN  [error |-> found.error,
         value |-> SelectSeq(attributes, LAMBDA a : a.dict = found.instance)]

Call(op, a, b) == [op |-> op, a |-> a, b |-> b]

NoLookup ==
    [call |-> Call("none", Other, Other), error |-> "none",
     instance |-> NoInstance]

\* the registry of a process that has loaded nothing and looked nothing up
DictInit ==
    /\ dict = [byId |-> <<>>, byName |-> <<>>]
    /\ vendors = [byId |-> <<>>, byName |-> <<>>]
    /\ vsas = <<>>
    /\ instances = <<>>
    /\ loaded = <<>>
    /\ lastLookup = NoLookup
    /\ dictProcess = "running"

\* the maps once a function of dictionary.js has returned R
Store(R) ==
    /\ dict' = R.dict
    /\ vendors' = R.vendors
    /\ vsas' = R.vsas
    /\ instances' = R.instances

\* a lookup has come to result r: the maps it leaves, and the note of it
Looked(call, r) ==
    /\ Store(r.registry)
    /\ lastLookup' = [call |-> call, error |-> r.error, instance |-> r.instance]
    /\ UNCHANGED <<loaded, dictProcess>>
    /\ UNCHANGED <<clientVars, serverVars, packetVars, callVars>>

\* Dictionary.load(file): a parser error ends the process
Load(file) ==
    /\ dictProcess = "running"
    /\ Len(loaded) < MaxLoads
    /\ LET R == LoadImpl(Registry, 0, DictionaryFiles[file])
       IN  /\ Store(R)
           /\ dictProcess' = IF R.error = "none" THEN "running" ELSE "exited"
    /\ loaded' = Append(loaded, file)
    /\ lastLookup' = lastLookup
    /\ UNCHANGED <<clientVars, serverVars, packetVars, callVars>>

Get(x) ==
    /\ dictProcess = "running"
    /\ Looked(Call("get", x, Other), DictionaryGet(Registry, x))

Vendor(x) ==
    /\ dictProcess = "running"
    /\ Looked(Call("vendor", x, Other), DictionaryVendor(Registry, x))

Vsa(vendor_id, sub_id) ==
    /\ dictProcess = "running"
    /\ Looked(Call("vsa", vendor_id, sub_id),
              DictionaryVsa(Registry, vendor_id, sub_id))

DictNext ==
    \/ \E file \in DOMAIN DictionaryFiles : Load(file)
    \/ \E x \in GetArguments : Get(x)
    \/ \E x \in VendorArguments : Vendor(x)
    \/ \E args \in VsaArguments : Vsa(args[1], args[2])

(***************************************************************************)
(* lib/code.js: Code.from.  A string is the sequence of its characters.    *)
(***************************************************************************)
LowerCaseLetters ==
    <<"a", "b", "c", "d", "e", "f", "g", "h", "i", "j", "k", "l", "m", "n",
      "o", "p", "q", "r", "s", "t", "u", "v", "w", "x", "y", "z">>
UpperCaseLetters ==
    <<"A", "B", "C", "D", "E", "F", "G", "H", "I", "J", "K", "L", "M", "N",
      "O", "P", "Q", "R", "S", "T", "U", "V", "W", "X", "Y", "Z">>

\* String#toUpperCase
ToUpperCase(chars) ==
    [i \in DOMAIN chars |->
       IF \E k \in DOMAIN LowerCaseLetters : LowerCaseLetters[k] = chars[i]
         THEN UpperCaseLetters[CHOOSE k \in DOMAIN LowerCaseLetters :
                                 LowerCaseLetters[k] = chars[i]]
       ELSE chars[i]]

\* String#replace(from, to) with a string pattern: the first occurrence only
Replace(chars, from, to) ==
    IF \E i \in DOMAIN chars : chars[i] = from
      THEN LET first == CHOOSE i \in DOMAIN chars :
                          /\ chars[i] = from
                          /\ \A j \in 1 .. i - 1 : chars[j] # from
           IN  [chars EXCEPT ![first] = to]
    ELSE chars

\* the string of a sequence of characters
RECURSIVE Join(_)
Join(chars) == IF chars = <<>> THEN "" ELSE Head(chars) \o Join(Tail(chars))

\* what Code.from may be given: a number, a string, an instance of the
\* table (told by its code), an object made by another than the
\* initialisation loop with Code.prototype for prototype, an array of one
\* number, undefined
FromNumber(n) == [kind |-> "number", number |-> n, chars |-> <<>>]
FromFraction == [kind |-> "fraction", number |-> 0, chars |-> <<"1", ".", "5">>]
FromString(chars) == [kind |-> "string", number |-> 0, chars |-> chars]
FromInstance(c) == [kind |-> "instance", number |-> c, chars |-> <<>>]
FromCreated(c) == [kind |-> "created", number |-> c, chars |-> <<>>]
FromArray(n) == [kind |-> "array", number |-> n, chars |-> <<>>]
FromUndefined == [kind |-> "undefined", number |-> 0, chars |-> <<>>]

\* the own properties of Code: for each code of the table its instance
\* under the code and under the property name, and the properties a class
\* has, which hold no instance (written 0)
OwnProperties ==
    [key \in { ToString(e[1]) : e \in codeTable }
            \cup { PropertyName(e[2]) : e \in codeTable }
            \cup { "length", "name", "prototype", "from" } |->
       IF \E e \in codeTable : key \in {ToString(e[1]), PropertyName(e[2])}
         THEN (CHOOSE e \in codeTable :
                 key \in {ToString(e[1]), PropertyName(e[2])})[1]
       ELSE 0]

\* the property key hasOwnProperty(value) and this[value] make of a value
PropertyKey(value) ==
    CASE value.kind \in {"number", "array"} -> ToString(value.number)
      [] value.kind \in {"string", "fraction"} -> Join(value.chars)
      [] OTHER -> "undefined"

\* what Code.from comes to: the object returned (an instance of the table,
\* or the created object it was given) or the error thrown
FromReturns(kind, c) == [error |-> "none", kind |-> kind, code |-> c]
FromThrows(error) == [error |-> error, kind |-> "none", code |-> 0]

\* Code.from
CodeFrom(value) ==
    IF value.kind \in {"instance", "created"}
      THEN FromReturns(value.kind, value.number)
    ELSE LET v == IF value.kind = "string"
                    THEN [value EXCEPT
                            !.chars = Replace(ToUpperCase(@), "-", "_")]
                  ELSE value
             key == PropertyKey(v)
         IN  IF key \in DOMAIN OwnProperties /\ OwnProperties[key] # 0
               THEN FromReturns("instance", OwnProperties[key])
             ELSE FromThrows("RangeError")

\* the values Code.from is given
AccessRequest ==
    <<"A", "c", "c", "e", "s", "s", "-", "R", "e", "q", "u", "e", "s", "t">>
CoaNak == <<"C", "o", "A", "-", "N", "A", "K">>
Spelling == [c \in {1, 45} |-> IF c = 1 THEN AccessRequest ELSE CoaNak]

\* String#toLowerCase
ToLowerCaseChars(chars) ==
    [i \in DOMAIN chars |->
       IF \E k \in DOMAIN UpperCaseLetters : UpperCaseLetters[k] = chars[i]
         THEN LowerCaseLetters[CHOOSE k \in DOMAIN UpperCaseLetters :
                                 UpperCaseLetters[k] = chars[i]]
       ELSE chars[i]]

Underscored(chars) ==
    [i \in DOMAIN chars |-> IF chars[i] = "-" THEN "_" ELSE chars[i]]

CodeFromStrings ==
    UNION { { name, ToUpperCase(name), ToLowerCaseChars(name),
              Underscored(name), Underscored(ToUpperCase(name)),
              Underscored(ToLowerCaseChars(name)) } :
            name \in { Spelling[c] : c \in DOMAIN Spelling } }
    \cup { <<"x", "y", "z", "z", "y">>, <<"1">>, <<"4", "5">>, <<"0">>,
           <<"A", "c", "c", "e", "s", "s">>, <<"f", "r", "o", "m">>,
           <<"n", "a", "m", "e">>, <<>> }

CodeFromArguments ==
    { FromNumber(n) : n \in Codes \cup {0, 6, 255} }
    \cup { FromString(chars) : chars \in CodeFromStrings }
    \cup { FromInstance(c) : c \in Codes }
    \cup { FromCreated(c) : c \in {1, 99} }
    \cup { FromArray(n) : n \in {1, 255} }
    \cup { FromFraction, FromUndefined }

(***************************************************************************)
(* Buffers: a Buffer's contents are the sequence of its bytes.             *)
(***************************************************************************)
\* s[i + j] ^ b[j] on bytes
RECURSIVE Xor(_, _)
Xor(a, b) ==
    IF a = 0 /\ b = 0 THEN 0
    ELSE ((a + b) % 2) + 2 * Xor(a \div 2, b \div 2)

\* Buffer.alloc(n)
Alloc(n) == [i \in 1 .. n |-> 0]

\* source.copy(target, at): the bytes of source over those of target from
\* offset at (0-based), as many as fit
Copy(source, target, at) ==
    LET room == Len(target) - at
        n == IF Len(source) < room THEN Len(source) ELSE room
    IN  IF n <= 0 THEN target
        ELSE SubSeq(target, 1, at) \o SubSeq(source, 1, n)
             \o SubSeq(target, at + n + 1, Len(target))

\* buf.slice(from, to) with 0-based bounds, as for contents
Slice(buf, from, to) ==
    LET start == IF from > Len(buf) THEN Len(buf) ELSE from
        end == IF to > Len(buf) THEN Len(buf) ELSE to
    IN  IF end <= start THEN <<>> ELSE SubSeq(buf, start + 1, end)

\* crypto.createHash('md5') over the bytes given to update(), in order.
\* MD5 itself is out of reach; what stands for it is a function of every
\* byte and of the bytes' order that gives 16 bytes.
RECURSIVE Mix(_, _, _)
Mix(bytes, from, to) ==
    IF from > to THEN 0
    ELSE IF from = to THEN ((bytes[from] + 1) * (2 * from + 29)) % 65521
    ELSE LET middle == (from + to) \div 2
         IN  (Mix(bytes, from, middle) + Mix(bytes, middle + 1, to)) % 65521

Digest(bytes) ==
    LET h == (7 + Mix(bytes, 1, Len(bytes))) % 65521
    IN  [j \in 1 .. 16 |-> (h * (2 * j + 1) + (h \div 256) + j) % 256]

\* Buffer#toString('utf-8') and Buffer.from(string, 'utf-8') on text that is
\* the sequence of its code points: a byte below 128 is the character of
\* that code, a byte from 128 on that begins no character is U+FFFD, and
\* U+FFFD is written as three bytes
REPLACEMENT == 65533

Utf8Decode(bytes) ==
    [i \in DOMAIN bytes |-> IF bytes[i] < 128 THEN bytes[i] ELSE REPLACEMENT]

RECURSIVE Utf8Encode(_)
Utf8Encode(text) ==
    IF text = <<>> THEN <<>>
    ELSE (IF Head(text) < 128 THEN <<Head(text)>> ELSE <<239, 191, 189>>)
         \o Utf8Encode(Tail(text))

(***************************************************************************)
(* lib/attribute.js: the User-Password transform.                          *)
(***************************************************************************)
\* md5(secret, chunk)
Md5(secret, chunk) == Digest(secret \o chunk)

\* xorBlock(i, d, s, b): d with the 16 bytes from (0-based) i on set to
\* those of s xored with b
XorBlock(i, d, s, b) ==
    [k \in DOMAIN d |->
       IF k > i /\ k <= i + 16 THEN Xor(s[k], b[k - i]) ELSE d[k]]

\* stripTrailingNULs
RECURSIVE StripTrailingNULs(_)
StripTrailingNULs(b) ==
    IF b # <<>> /\ b[Len(b)] = 0 THEN StripTrailingNULs(SubSeq(b, 1, Len(b) - 1))
    ELSE b

\* (password.length + 15) & 0xf0
PaddedLength(length) == ((length + 15) % 256) - ((length + 15) % 16)

\* the loop of encodeMD5 and of decodeMD5 from block i on: c is the cipher
\* text, as far as it is made in encodeMD5 and whole in decodeMD5
RECURSIVE EncodeBlocks(_, _, _, _, _, _)
EncodeBlocks(i, n, c, p, secret, authenticator) ==
    IF i >= n THEN c
    ELSE LET chunk == IF i = 0 THEN authenticator ELSE Slice(c, i - 16, i)
         IN  EncodeBlocks(i + 16, n, XorBlock(i, c, p, Md5(secret, chunk)), p,
                          secret, authenticator)

RECURSIVE DecodeBlocks(_, _, _, _, _, _)
DecodeBlocks(i, n, p, c, secret, authenticator) ==
    IF i >= n THEN p
    ELSE LET chunk == IF i = 0 THEN authenticator ELSE Slice(c, i - 16, i)
         IN  DecodeBlocks(i + 16, n, XorBlock(i, p, c, Md5(secret, chunk)), c,
                          secret, authenticator)

\* encodeMD5: the cipher text, a Buffer
EncodeMD5(password, secret, authenticator) ==
    LET n == PaddedLength(Len(password))
        p == Copy(password, Alloc(n), 0)
    IN  EncodeBlocks(0, n, Alloc(n), p, secret, authenticator)

\* a decodeMD5 that returns the whole of what it deciphered
DecodeMD5Whole(cipher, secret, authenticator) ==
    LET n == Len(cipher)
    IN  IF n % 16 # 0 \/ n > 128 THEN [error |-> "Error", value |-> <<>>]
        ELSE [error |-> "none",
              value |-> Utf8Decode(DecodeBlocks(0, n, Alloc(n), cipher, secret,
                                                authenticator))]

\* decodeMD5: the error thrown, or the string returned
DecodeMD5(cipher, secret, authenticator) ==
    LET n == Len(cipher)
    IN  IF n % 16 # 0 \/ n > 128 THEN [error |-> "Error", value |-> <<>>]
        ELSE [error |-> "none",
              value |-> Utf8Decode(StripTrailingNULs(
                          DecodeBlocks(0, n, Alloc(n), cipher, secret,
                                       authenticator)))]

(***************************************************************************)
(* lib/avalue.js and lib/attribute.js: values and attributes on the wire.  *)
(* The dictionary is the one of a process that has loaded dictionary.rfc2865*)
(* and dictionary.lucent.                                                  *)
(***************************************************************************)
\* buf.writeUIntBE(value, offset, size) and buf.readUIntBE(offset, size), as
\* for the bytes
RECURSIVE BigEndian(_, _)
BigEndian(value, size) ==
    IF size = 0 THEN <<>>
    ELSE Append(BigEndian(value \div 256, size - 1), value % 256)

RECURSIVE ReadUIntBE(_)
ReadUIntBE(bytes) ==
    IF bytes = <<>> THEN 0
    ELSE 256 * ReadUIntBE(SubSeq(bytes, 1, Len(bytes) - 1)) + bytes[Len(bytes)]

RECURSIVE Power(_, _)
Power(base, n) == IF n = 0 THEN 1 ELSE base * Power(base, n - 1)

\* Vendor: Lucent as dictionary.lucent declares it, any other as
\* Dictionary.vendor makes it
NoVendor == [id |-> 0, name |-> "", typeSize |-> 0, lengthSize |-> 0]
Lucent == [id |-> 4846, name |-> "Lucent", typeSize |-> 2, lengthSize |-> 1]

\* the sizes a VENDOR line may declare with format=t,l, and a vendor
\* declared with each of them
TypeSizes == {1, 2, 4}
LengthSizes == {0, 1, 2}

FormatVendor(typeSize, lengthSize) ==
    [id |-> 9000 + 10 * typeSize + lengthSize,
     name |-> VendorName(9000 + 10 * typeSize + lengthSize),
     typeSize |-> typeSize, lengthSize |-> lengthSize]

FormatVendors == { FormatVendor(t, l) : t \in TypeSizes, l \in LengthSizes }

WireVendor(id) ==
    IF id = Lucent.id THEN Lucent
    ELSE IF \E v \in FormatVendors : v.id = id
      THEN CHOOSE v \in FormatVendors : v.id = id
    ELSE [id |-> id, name |-> VendorName(id), typeSize |-> 1, lengthSize |-> 1]

\* DictionaryEntry: realType is the type that encodes the value, isVSA
\* tells the Vendor-Specific attribute itself
Entry(name, id, type, encrypt) ==
    [name |-> name, id |-> id, sub_id |-> 0, vendor |-> NoVendor,
     realType |-> type, isVSA |-> type = "vsa", encrypt |-> encrypt]

VendorEntry(vendor, name, sub_id, type) ==
    [name |-> name, id |-> VENDOR_SPECIFIC, sub_id |-> sub_id,
     vendor |-> vendor, realType |-> type, isVSA |-> TRUE, encrypt |-> 0]

UserName == Entry("User-Name", 1, "string", 0)
UserPassword == Entry("User-Password", 2, "string", 1)
NasPort == Entry("NAS-Port", 5, "integer", 0)
VendorSpecific == Entry("Vendor-Specific", VENDOR_SPECIFIC, "vsa", 0)
ProxyState == Entry("Proxy-State", 33, "octets", 0)
LucentUserPriority == VendorEntry(Lucent, "Lucent-User-Priority", 8, "integer")

\* Dictionary.get(id) and Dictionary.vsa(vendor_id, sub_id) for the ids met
\* on the wire
WireGet(id) ==
    CASE id = 1 -> UserName
      [] id = 2 -> UserPassword
      [] id = 5 -> NasPort
      [] id = VENDOR_SPECIFIC -> VendorSpecific
      [] id = 33 -> ProxyState
      [] OTHER -> Entry("Unknown-Attribute-" \o ToString(id), id, "octets", 0)

WireVsa(vendor_id, sub_id) ==
    IF vendor_id = Lucent.id /\ sub_id = 8 THEN LucentUserPriority
    ELSE VendorEntry(WireVendor(vendor_id),
                     WireVendor(vendor_id).name \o "-Unknown-Attribute-"
                       \o ToString(sub_id),
                     sub_id, "octets")

\* an attribute value: the Buffer a string, octets or vsa value keeps, or
\* the number a numeric value keeps
BufferValue(buf) == [buf |-> buf, number |-> 0]
NumericValue(number) == [buf |-> <<>>, number |-> number]

ValueReturns(avalue) == [error |-> "none", avalue |-> avalue]
ValueThrows(error) == [error |-> error, avalue |-> BufferValue(<<>>)]

\* AFixed.length of the numeric types
FixedLength(type) ==
    CASE type = "byte" -> 1 [] type = "short" -> 2 [] OTHER -> 4

IsNumeric(type) == type \in {"byte", "short", "integer", "date"}

\* type.fromBuffer(buf): bufferCheck, then the value
FromBuffer(type, buf) ==
    IF IsNumeric(type)
      THEN (IF Len(buf) # FixedLength(type) THEN ValueThrows("RangeError")
            ELSE ValueReturns(NumericValue(ReadUIntBE(buf))))
    ELSE IF Len(buf) < 1 \/ Len(buf) > 253 THEN ValueThrows("RangeError")
    ELSE ValueReturns(BufferValue(buf))

\* AString.fromValue(value) for a string, the sequence of its code points
StringFromValue(type, text) == FromBuffer(type, Utf8Encode(text))

\* avalue.toBuffer()
ToBuffer(type, avalue) ==
    IF IsNumeric(type) THEN BigEndian(avalue.number, FixedLength(type))
    ELSE avalue.buf

\* what toWire comes to: the error thrown or the offset returned, and the
\* buffer as the call leaves it
WireReturns(buf, offset) == [error |-> "none", buf |-> buf, offset |-> offset]
WireThrows(buf, error) == [error |-> error, buf |-> buf, offset |-> 0]

\* the writes of Attribute#toWire once there is room: each buf.write...
\* throws a RangeError for a value its field cannot hold, after the writes
\* before it
WriteAttribute(entry, abuf, length, buf, offset) ==
    LET vendor == entry.vendor
        b1 == Copy(<<entry.id>>, buf, offset)
        b2 == Copy(<<length>>, b1, offset + 1)
        b3 == Copy(BigEndian(vendor.id, 4), b2, offset + 2)
        b4 == Copy(BigEndian(entry.sub_id, vendor.typeSize), b3, offset + 6)
        sub_length == IF Len(abuf) < 255 THEN Len(abuf) ELSE 255
        b5 == IF vendor.lengthSize = 0 THEN b4
              ELSE Copy(BigEndian(sub_length, vendor.lengthSize), b4,
                        offset + 6 + vendor.typeSize)
        data == IF vendor = NoVendor THEN offset + 2
                ELSE offset + 6 + vendor.typeSize + vendor.lengthSize
    IN  IF length > 255 THEN WireThrows(b1, "RangeError")
        ELSE IF vendor = NoVendor
          THEN WireReturns(Copy(abuf, b2, data), data + Len(abuf))
        ELSE IF vendor.typeSize < 4
                  /\ entry.sub_id >= Power(256, vendor.typeSize)
          THEN WireThrows(b3, "RangeError")
        ELSE WireReturns(Copy(abuf, b5, data), data + Len(abuf))

\* the length Attribute#toWire gives the attribute
WireLength(entry, abuf) ==
    2 + Len(abuf)
      + (IF entry.vendor = NoVendor THEN 0
         ELSE 4 + entry.vendor.typeSize + entry.vendor.lengthSize)

\* the value as it goes on the wire
WireValue(attr, secret, authenticator) ==
    LET abuf == ToBuffer(attr.dict.realType, attr.avalue)
    IN  IF attr.dict.encrypt = 1 THEN EncodeMD5(abuf, secret, authenticator)
        ELSE abuf

\* Attribute#toWire
AttributeToWire(attr, buf, offset, secret, authenticator) ==
    LET abuf == WireValue(attr, secret, authenticator)
        length == WireLength(attr.dict, abuf)
    IN  IF offset + length >= Len(buf) THEN WireThrows(buf, "RangeError")
        ELSE WriteAttribute(attr.dict, abuf, length, buf, offset)

\* new Attribute(id, value)
Attribute(entry, avalue) == [dict |-> entry, avalue |-> avalue]

NoAttribute == Attribute(WireGet(0), BufferValue(<<>>))

\* what Attribute.fromWire comes to: the error thrown or the attribute
\* made, and the buffer it was given as the call leaves it
AttributeReturns(attr, buffer) ==
    [error |-> "none", attr |-> attr, buffer |-> buffer]
AttributeThrows(error, buffer) ==
    [error |-> error, attr |-> NoAttribute, buffer |-> buffer]

\* the end of Attribute.fromWire: the value of an encrypted attribute is
\* deciphered into a string, and new Attribute(dict, data) makes the value
\* from the Buffer or from the string
MakeAttribute(entry, data, buffer, secret, authenticator) ==
    IF entry.encrypt = 0
      THEN LET made == FromBuffer(entry.realType, data)
           IN  IF made.error # "none" THEN AttributeThrows(made.error, buffer)
               ELSE AttributeReturns(Attribute(entry, made.avalue), buffer)
    ELSE IF entry.encrypt # 1 THEN AttributeThrows("Error", buffer)
    ELSE LET plain == DecodeMD5(data, secret, authenticator)
             made == IF IsNumeric(entry.realType) THEN ValueThrows("TypeError")
                     ELSE StringFromValue(entry.realType, plain.value)
         IN  IF plain.error # "none" THEN AttributeThrows(plain.error, buffer)
             ELSE IF made.error # "none"
               THEN AttributeThrows(made.error, buffer)
             ELSE AttributeReturns(Attribute(entry, made.avalue), buffer)

\* Attribute.fromWire taking the value from the end of the sub-attribute's
\* id, as if no vendor wrote a sub-length
AttributeFromWireNoLength(buffer, secret, authenticator) ==
    IF Len(buffer) < 2 THEN AttributeThrows("RangeError", buffer)
    ELSE IF Len(buffer) # buffer[2] THEN AttributeThrows("RangeError", buffer)
    ELSE IF buffer[1] < 1 THEN AttributeThrows("RangeError", buffer)
    ELSE LET entry == WireGet(buffer[1])
             data == Slice(buffer, 2, Len(buffer))
         IN  IF ~entry.isVSA
               THEN MakeAttribute(entry, data, buffer, secret, authenticator)
             ELSE IF Len(data) < 4 THEN AttributeThrows("RangeError", buffer)
             ELSE
               LET vendor == WireVendor(ReadUIntBE(Slice(data, 0, 4)))
                   header == 4 + vendor.typeSize + vendor.lengthSize
                   sub_id == ReadUIntBE(Slice(data, 4, 4 + vendor.typeSize))
                   sub_length ==
                     IF vendor.lengthSize # 0
                       THEN ReadUIntBE(Slice(data, 4 + vendor.typeSize, header))
                     ELSE Len(buffer) - (4 + vendor.typeSize)
                   length == header + sub_length
                   trimmed == [buffer EXCEPT ![2] = length % 256]
               IN  IF Len(data) < header
                     THEN AttributeThrows("RangeError", buffer)
                   ELSE MakeAttribute(WireVsa(vendor.id, sub_id),
                                      Slice(data, 4 + vendor.typeSize, length),
                                      trimmed,
                                      secret, authenticator)

\* Attribute.fromWire
AttributeFromWire(buffer, secret, authenticator) ==
    IF Len(buffer) < 2 THEN AttributeThrows("RangeError", buffer)
    ELSE IF Len(buffer) # buffer[2] THEN AttributeThrows("RangeError", buffer)
    ELSE IF buffer[1] < 1 THEN AttributeThrows("RangeError", buffer)
    ELSE LET entry == WireGet(buffer[1])
             data == Slice(buffer, 2, Len(buffer))
         IN  IF ~entry.isVSA
               THEN MakeAttribute(entry, data, buffer, secret, authenticator)
             ELSE IF Len(data) < 4 THEN AttributeThrows("RangeError", buffer)
             ELSE
               LET vendor == WireVendor(ReadUIntBE(Slice(data, 0, 4)))
                   header == 4 + vendor.typeSize + vendor.lengthSize
                   sub_id == ReadUIntBE(Slice(data, 4, 4 + vendor.typeSize))
                   sub_length ==
                     IF vendor.lengthSize # 0
                       THEN ReadUIntBE(Slice(data, 4 + vendor.typeSize, header))
                     ELSE Len(buffer) - (4 + vendor.typeSize)
                   length == header + sub_length
                   trimmed == [buffer EXCEPT ![2] = length % 256]
               IN  IF Len(data) < header
                     THEN AttributeThrows("RangeError", buffer)
                   ELSE MakeAttribute(WireVsa(vendor.id, sub_id),
                                      Slice(data, header, length), trimmed,
                                      secret, authenticator)

\* what parseAttributes comes to: the error thrown, "hang" for a loop
\* that does not end, or the attributes made; and the buffer it leaves
ListReturns(attrs, buf) == [error |-> "none", attrs |-> attrs, buf |-> buf]
ListThrows(error, buf) == [error |-> error, attrs |-> <<>>, buf |-> buf]

\* parseAttributes of attrlist.js, from the n-th byte (0-based) on with the
\* attributes made so far: while (n < len), an attribute is read only if
\* more than two bytes are left, and n does not move otherwise
RECURSIVE ParseAttributes(_, _, _, _, _)
ParseAttributes(buf, n, attrs, secret, authenticator) ==
    IF n >= Len(buf) THEN ListReturns(attrs, buf)
    ELSE IF ~(Len(buf) - n > 2) THEN ListThrows("hang", buf)
    ELSE LET len == buf[n + 2]
             data == Slice(buf, n, n + len)
             made == AttributeFromWire(data, secret, authenticator)
         IN  IF made.error # "none" THEN ListThrows(made.error, buf)
             ELSE ParseAttributes(Copy(made.buffer, buf, n), n + len,
                                  Append(attrs, made.attr), secret,
                                  authenticator)

\* AttributeList.fromWire: the read-only list of the attributes parsed
AttributeListFromWire(buf, offset, secret, authenticator) ==
    ParseAttributes(buf, offset, <<>>, secret, authenticator)

\* AttributeList#toWire: the attributes in order, each from the offset the
\* one before returned
RECURSIVE AttributeListToWire(_, _, _, _, _)
AttributeListToWire(attrs, buf, offset, secret, authenticator) ==
    IF attrs = <<>> THEN WireReturns(buf, offset)
    ELSE LET written == AttributeToWire(Head(attrs), buf, offset, secret,
                                        authenticator)
         IN  IF written.error # "none" THEN written
             ELSE AttributeListToWire(Tail(attrs), written.buf, written.offset,
                                      secret, authenticator)

(***************************************************************************)
(* lib/packet.js: a packet to and from the wire, byte for byte.            *)
(***************************************************************************)
PACKET_BUFFER == 4096
HEADER_LENGTH == 20

RadiusPacket(c, id, authenticator, attrs) ==
    [code |-> c, identifier |-> id, authenticator |-> authenticator,
     attributes |-> attrs]

\* RadiusPacket#toWire: the error thrown, or the buffer returned
RadiusPacketToWire(pkt, secret, response) ==
    LET header == <<pkt.code, pkt.identifier, 0, 0>> \o pkt.authenticator
        b1 == Copy(header, Alloc(PACKET_BUFFER), 0)
        written == AttributeListToWire(pkt.attributes, b1, HEADER_LENGTH,
                                       secret, pkt.authenticator)
        length == written.offset
        buffer == Slice(Copy(BigEndian(length, 2), written.buf, 2), 0, length)
    IN  IF written.error # "none" THEN WireThrows(<<>>, written.error)
        ELSE IF response
          THEN WireReturns(Copy(Digest(buffer \o secret), buffer, 4), length)
        ELSE WireReturns(buffer, length)

\* what fromWire comes to: the error thrown, "hang" when it does not
\* return, or the packet
NoRadiusPacket == RadiusPacket(0, 0, <<>>, <<>>)
PacketReturns(pkt) == [error |-> "none", packet |-> pkt]
PacketThrows(error) == [error |-> error, packet |-> NoRadiusPacket]

\* RadiusPacket.fromWire
RadiusPacketFromWire(buf, secret) ==
    IF Len(buf) < HEADER_LENGTH THEN PacketThrows("Error")
    ELSE IF Len(buf) < ReadUIntBE(Slice(buf, 2, 4)) THEN PacketThrows("Error")
    ELSE LET authenticator == Slice(buf, 4, HEADER_LENGTH)
             attrs == AttributeListFromWire(buf, HEADER_LENGTH, secret,
                                            authenticator)
         IN  IF attrs.error # "none" THEN PacketThrows(attrs.error)
             ELSE IF buf[1] \notin Codes THEN PacketThrows("RangeError")
             ELSE PacketReturns(RadiusPacket(buf[1], buf[2], authenticator,
                                             attrs.attrs))

(***************************************************************************)
(* lib/avalue.js, AInet4: an address from a string and back.  A string is  *)
(* the sequence of its characters.                                         *)
(***************************************************************************)
DecimalDigits == <<"0", "1", "2", "3", "4", "5", "6", "7", "8", "9">>
HexDigits == DecimalDigits \o <<"a", "b", "c", "d", "e", "f">>

IsDigit(ch, digits) == \E k \in DOMAIN digits : digits[k] = ch
DigitValue(ch, digits) == (CHOOSE k \in DOMAIN digits : digits[k] = ch) - 1

\* String#trim on the white space there is, the space
RECURSIVE TrimStart(_)
TrimStart(chars) ==
    IF chars # <<>> /\ Head(chars) = " " THEN TrimStart(Tail(chars)) ELSE chars

RECURSIVE TrimEnd(_)
TrimEnd(chars) ==
    IF chars # <<>> /\ chars[Len(chars)] = " "
      THEN TrimEnd(SubSeq(chars, 1, Len(chars) - 1))
    ELSE chars

Trim(chars) == TrimEnd(TrimStart(chars))

\* String#split(/\./): the pieces between the dots, one more than there
\* are dots
RECURSIVE Split(_, _)
Split(chars, piece) ==
    IF chars = <<>> THEN <<piece>>
    ELSE IF Head(chars) = "." THEN <<piece>> \o Split(Tail(chars), <<>>)
    ELSE Split(Tail(chars), Append(piece, Head(chars)))

\* a number, or NaN
Num(n) == [nan |-> FALSE, n |-> n]
NaN == [nan |-> TRUE, n |-> 0]

\* the value of a row of digits in a base, NaN for an empty row and for a
\* row with another character in it
RECURSIVE Digits(_, _, _, _)
Digits(chars, digits, base, sofar) ==
    IF chars = <<>> THEN Num(sofar)
    ELSE IF ~IsDigit(Head(chars), digits) THEN NaN
    ELSE Digits(Tail(chars), digits, base,
                sofar * base + DigitValue(Head(chars), digits))

Row(chars, digits, base) ==
    IF chars = <<>> THEN NaN ELSE Digits(chars, digits, base, 0)

\* decimal digits, and decimal digits with an exponent of digits after them
Unsigned(chars) ==
    IF \E i \in DOMAIN chars : chars[i] \in {"e", "E"}
      THEN LET at == CHOOSE i \in DOMAIN chars :
                       /\ chars[i] \in {"e", "E"}
                       /\ \A j \in 1 .. i - 1 : chars[j] \notin {"e", "E"}
               mantissa == Row(SubSeq(chars, 1, at - 1), DecimalDigits, 10)
               exponent == Row(SubSeq(chars, at + 1, Len(chars)),
                               DecimalDigits, 10)
           IN  IF mantissa.nan \/ exponent.nan THEN NaN
               ELSE Num(mantissa.n * Power(10, exponent.n))
    ELSE Row(chars, DecimalDigits, 10)

\* Number(string) on strings of digits, signs, spaces, "x" and "e": white
\* space around the number is dropped, the empty string is 0, "0x" begins a
\* hexadecimal number that takes no sign, a decimal number takes a sign
\* and an exponent, anything else is NaN
ToNumber(chars) ==
    LET text == Trim(chars)
    IN  IF text = <<>> THEN Num(0)
        ELSE IF Len(text) >= 2 /\ text[1] = "0" /\ text[2] \in {"x", "X"}
          THEN Row(SubSeq(text, 3, Len(text)), HexDigits, 16)
        ELSE IF Head(text) = "-"
          THEN LET u == Unsigned(Tail(text))
               IN  IF u.nan THEN NaN ELSE Num(0 - u.n)
        ELSE IF Head(text) = "+" THEN Unsigned(Tail(text))
        ELSE Unsigned(text)

\* String(n) for n of a byte
RECURSIVE NumberToString(_)
NumberToString(n) ==
    IF n < 10 THEN <<DecimalDigits[n + 1]>>
    ELSE Append(NumberToString(n \div 10), DecimalDigits[(n % 10) + 1])

\* [].join.call(bytes, '.')
RECURSIVE JoinDotted(_)
JoinDotted(bytes) ==
    IF bytes = <<>> THEN <<>>
    ELSE IF Len(bytes) = 1 THEN NumberToString(bytes[1])
    ELSE NumberToString(bytes[1]) \o <<".">> \o JoinDotted(Tail(bytes))

\* AInet4.fromValue(value) for a string: the error thrown, or the bytes of
\* the value made
Inet4FromValue(chars) ==
    LET pieces == Split(Trim(chars), <<>>)
        value == [i \in DOMAIN pieces |-> ToNumber(pieces[i])]
    IN  IF \/ Len(value) # 4
           \/ ~ \A i \in DOMAIN value :
                  ~value[i].nan /\ value[i].n >= 0 /\ value[i].n <= 255
          THEN ValueThrows("TypeError")
        ELSE LET buf == [i \in DOMAIN value |-> value[i].n % 256]
             IN  IF Len(buf) # 4 THEN ValueThrows("RangeError")
                 ELSE ValueReturns(BufferValue(buf))

\* AInet4#toString
Inet4ToString(avalue) == JoinDotted(avalue.buf)

(***************************************************************************)
(* lib/dictent.js: the codec of a dictionary entry's type tag.             *)
(***************************************************************************)
\* typeMap: the tags of dictionary files and the class of avalue.js each
\* stands for
typeMap ==
    << <<"string", "String">>, <<"octets", "Buffer">>, <<"uint8", "Byte">>,
       <<"byte", "Byte">>, <<"uint16", "Short">>, <<"short", "Short">>,
       <<"integer", "Integer">>, <<"uint64", "Buffer">>,
       <<"integer64", "Buffer">>, <<"signed", "Integer">>,
       <<"ipaddr", "Inet4">>, <<"ipv4prefix", "Buffer">>,
       <<"ipv6addr", "Buffer">>, <<"ipv6prefix", "Buffer">>,
       <<"ifid", "Buffer">>, <<"date", "Date">>, <<"tlv", "Buffer">>,
       <<"combo-ip", "Buffer">>, <<"abinary", "Buffer">>,
       <<"ether", "Buffer">>, <<"struct", "Buffer">>, <<"vsa", "VSA">> >>

TypeMapHas(key) == \E i \in DOMAIN typeMap : typeMap[i][1] = key
TypeMapGet(key) == typeMap[CHOOSE i \in DOMAIN typeMap : typeMap[i][1] = key][2]

\* type.match(/^octets\[\d+\]$/)
OctetsWidth == <<"o", "c", "t", "e", "t", "s", "[">>

MatchesOctetsWidth(chars) ==
    /\ Len(chars) >= Len(OctetsWidth) + 2
    /\ SubSeq(chars, 1, Len(OctetsWidth)) = OctetsWidth
    /\ chars[Len(chars)] = "]"
    /\ \A i \in Len(OctetsWidth) + 1 .. Len(chars) - 1 :
         IsDigit(chars[i], DecimalDigits)

\* what the beginning of new DictionaryEntry(vendor, name, id, type) comes
\* to: the ParseError thrown, or this.type
TypeReturns(type) == [error |-> "none", type |-> type]
TypeThrows(error) == [error |-> error, type |-> ""]

\* a constructor that takes the Buffer class for a tag typeMap has not
EntryTypeOrBuffer(chars) ==
    LET lower == ToLowerCaseChars(chars)
        type == IF MatchesOctetsWidth(lower) THEN "octets" ELSE Join(lower)
    IN  IF ~TypeMapHas(type) THEN TypeReturns("Buffer")
        ELSE TypeReturns(TypeMapGet(type))

\* new DictionaryEntry: type.toLowerCase(), octets[n] taken for octets, a
\* ParseError for a tag typeMap has not
EntryType(chars) ==
    LET lower == ToLowerCaseChars(chars)
        type == IF MatchesOctetsWidth(lower) THEN "octets" ELSE Join(lower)
    IN  IF ~TypeMapHas(type) THEN TypeThrows("ParseError")
        ELSE TypeReturns(TypeMapGet(type))

(***************************************************************************)
(* A function of the library applied to an argument.                       *)
(***************************************************************************)
Applied(function, argument) == [function |-> function, argument |-> argument]

\* nothing was called yet
\* a Buffer: the memory it is a window on (its number in memory), where it
\* begins and how long it is
View(m, offset, length) == [memory |-> m, offset |-> offset, length |-> length]
NoView == View(0, 0, 0)

\* buf.slice(from): a new Buffer on the same memory
SliceView(view, from) ==
    LET start == IF from > view.length THEN view.length ELSE from
    IN  View(view.memory, view.offset + start, view.length - start)

\* the bytes seen through a Buffer of a memory
BytesOf(mem, view) ==
    IF view.memory = 0 THEN <<>>
    ELSE SubSeq(mem[view.memory], view.offset + 1, view.offset + view.length)

\* no memory allocated, no object made
HeapIdle ==
    /\ memory = <<>>
    /\ held = {}
    /\ closure = [buf |-> NoView, authenticator |-> NoView]

\* no request made
RequestsIdle ==
    /\ requests = <<>>
    /\ taken = <<>>

CallIdle ==
    /\ applied = Applied("none", <<>>)
    /\ returned = <<>>
    /\ HeapIdle
    /\ RequestsIdle

\* the functions keep nothing from one call to the next: a behaviour is one
\* call
Idle == applied.function = "none"

\* Code.from(value)
From(value) ==
    /\ Idle
    /\ applied' = Applied("Code.from", value)
    /\ returned' = CodeFrom(value)
    /\ UNCHANGED <<clientVars, serverVars, packetVars, dictVars, heapVars, requestVars>>

\* the plain texts, secrets and authenticators of the transform: "mypass",
\* texts of 16, 17 and 128 bytes, the empty text, and texts with a NUL in
\* them and at their end
MaxPassword == 128

Mypass == <<109, 121, 112, 97, 115, 115>>

Passwords ==
    { Mypass, <<>>, [i \in 1 .. 16 |-> 96 + i], [i \in 1 .. 17 |-> 96 + i],
      [i \in 1 .. MaxPassword |-> 33 + (i % 90)],
      <<97, 0, 98>>, <<97, 98, 0>>, <<0>>, [i \in 1 .. 16 |-> IF i < 16 THEN 97 ELSE 0] }

SecretBytes == { <<115, 101, 99, 114, 101, 116>>, <<120>> }

AuthenticatorBytes == { Alloc(16), [i \in 1 .. 16 |-> 16 * i - 1] }

\* decodeMD5(encodeMD5(password, secret, authenticator), secret,
\* authenticator)
Transform(password, secret, authenticator) ==
    /\ Idle
    /\ applied' = Applied("decodeMD5(encodeMD5)",
                          [password |-> password, secret |-> secret,
                           authenticator |-> authenticator])
    /\ returned' = DecodeMD5(EncodeMD5(password, secret, authenticator),
                             secret, authenticator)
    /\ UNCHANGED <<clientVars, serverVars, packetVars, dictVars, heapVars, requestVars>>

\* the attributes written: User-Name "alice", NAS-Port 5, User-Password
\* "mypass", Lucent-User-Priority 3 and a Lucent attribute of 250 bytes
Alice == <<97, 108, 105, 99, 101>>

WireAttributes ==
    { Attribute(UserName, BufferValue(Alice)),
      Attribute(NasPort, NumericValue(5)),
      Attribute(UserPassword, BufferValue(Mypass)),
      Attribute(LucentUserPriority, NumericValue(3)),
      Attribute(WireVsa(Lucent.id, 2000), BufferValue([i \in 1 .. 250 |-> 1])) }

\* the offsets written at, and the room the buffer has beyond the offset,
\* in bytes more than the attribute takes
WireOffsets == {0, 3}
WireRoom == {-1, 0, 1}

\* attr.toWire(buf, offset, secret, authenticator) on a buffer of 0xff bytes
AttributeToWireCall(attr, offset, room, secret, authenticator) ==
    LET length == WireLength(attr.dict, WireValue(attr, secret, authenticator))
        buf == [i \in 1 .. offset + length + room |-> 255]
    IN  /\ Idle
        /\ applied' = Applied("Attribute#toWire",
                              [attr |-> attr, buf |-> buf, offset |-> offset,
                               secret |-> secret,
                               authenticator |-> authenticator])
        /\ returned' = AttributeToWire(attr, buf, offset, secret, authenticator)
        /\ UNCHANGED <<clientVars, serverVars, packetVars, dictVars, heapVars, requestVars>>

\* the packets sent through toWire and fromWire
PacketIdentifiers == {0, 10, 255}

RoundTripAttributes ==
    { <<>>,
      <<Attribute(UserName, BufferValue(Alice))>>,
      <<Attribute(UserName, BufferValue(Alice)),
        Attribute(UserName, BufferValue(Alice))>>,
      <<Attribute(ProxyState, BufferValue(<<0, 255>>)),
        Attribute(NasPort, NumericValue(5)),
        Attribute(LucentUserPriority, NumericValue(3)),
        Attribute(WireVsa(100, 200), BufferValue(<<7>>)),
        Attribute(UserName, BufferValue(Alice))>>,
      <<Attribute(UserName, BufferValue(Alice)),
        Attribute(UserPassword, BufferValue(Mypass))>> }

RoundTripPackets ==
    { RadiusPacket(c, id, authenticator, attrs) :
        c \in {ACCESS_REQUEST, ACCESS_ACCEPT}, id \in PacketIdentifiers,
        authenticator \in AuthenticatorBytes, attrs \in RoundTripAttributes }

\* RadiusPacket.fromWire(pkt.toWire(secret, response), secret)
RoundTrip(pkt, secret, response) ==
    LET wired == RadiusPacketToWire(pkt, secret, response)
    IN  /\ Idle
        /\ applied' = Applied("fromWire(toWire)",
                              [packet |-> pkt, secret |-> secret,
                               response |-> response])
        /\ returned' = IF wired.error # "none" THEN PacketThrows(wired.error)
                       ELSE RadiusPacketFromWire(wired.buf, secret)
        /\ UNCHANGED <<clientVars, serverVars, packetVars, dictVars, heapVars, requestVars>>

\* the attribute streams parsed: none, User-Name "alice" once and twice,
\* NAS-Port 5, and streams that end in one byte, in two bytes, in an
\* attribute cut short and in an attribute of length 0
WellFramed == <<1, 7>> \o Alice

Streams ==
    { <<>>, WellFramed, WellFramed \o WellFramed, <<5, 6, 0, 0, 0, 5>>,
      <<1>>, WellFramed \o <<1>>, WellFramed \o WellFramed \o <<33>>,
      <<1, 2>>, <<1, 9>>, WellFramed \o <<1, 9>>,
      <<1, 9, 97>>, WellFramed \o <<1, 9, 97>>, <<1, 0, 0>>,
      WellFramed \o <<1, 1, 0>> }

\* AttributeList.fromWire(buf, 0, secret, authenticator)
ListFromWire(buf, secret, authenticator) ==
    /\ Idle
    /\ applied' = Applied("AttributeList.fromWire",
                          [buf |-> buf, secret |-> secret,
                           authenticator |-> authenticator])
    /\ returned' = AttributeListFromWire(buf, 0, secret, authenticator)
    /\ UNCHANGED <<clientVars, serverVars, packetVars, dictVars, heapVars, requestVars>>

\* the datagrams decoded: a header whose length field is the length of the
\* datagram, one less or one more, before each of the streams; the first
\* 0, 1 and 19 bytes of one; and one of a code that is none
WireDatagram(c, id, declared, stream) ==
    <<c, id>> \o BigEndian(declared, 2) \o Alloc(16) \o stream

DeclaredOff == {-1, 0, 1}
ShortLengths == {0, 1, HEADER_LENGTH - 1}

WireDatagrams ==
    { WireDatagram(ACCESS_ACCEPT, 10, HEADER_LENGTH + Len(stream) + off, stream) :
        stream \in Streams, off \in DeclaredOff }
    \cup { SubSeq(WireDatagram(ACCESS_ACCEPT, 10, n, <<>>), 1, n) : n \in ShortLengths }
    \cup { WireDatagram(0, 10, HEADER_LENGTH, <<>>) }

\* datagrams with bytes after the length their header declares: a header
\* alone, and a header with User-Name "alice", before each of the streams
TrailedDatagrams ==
    { WireDatagram(ACCESS_ACCEPT, 10, HEADER_LENGTH, stream) :
        stream \in Streams \ {<<>>} }
    \cup { WireDatagram(ACCESS_ACCEPT, 10, HEADER_LENGTH + Len(WellFramed),
                        WellFramed \o stream) : stream \in Streams \ {<<>>} }

\* RadiusPacket.fromWire(buf, secret)
FromWireCall(buf, secret) ==
    /\ Idle
    /\ applied' = Applied("RadiusPacket.fromWire",
                          [buf |-> buf, secret |-> secret])
    /\ returned' = RadiusPacketFromWire(buf, secret)
    /\ UNCHANGED <<clientVars, serverVars, packetVars, dictVars, heapVars, requestVars>>

\* the strings an address is made from: the pieces joined by dots, three
\* to five of them
Pieces ==
    { <<>>, <<"0">>, <<"1", "0">>, <<"2", "5", "5">>, <<"2", "5", "6">>,
      <<"0", "1">> }

OddPieces ==
    { <<"-", "1">>, <<" ", "1">>, <<"1", " ">>, <<"0", "x", "1", "0">>,
      <<"1", "e", "2">>, <<"a">>, <<"+", "7">>, <<"1", " ", "1">> }

Dotted(pieces) ==
    IF Len(pieces) = 0 THEN <<>>
    ELSE LET RECURSIVE Rest(_)
             Rest(k) == IF k > Len(pieces) THEN <<>>
                        ELSE <<".">> \o pieces[k] \o Rest(k + 1)
         IN  pieces[1] \o Rest(2)

AddressStrings ==
    { Dotted(<<a, b, c, d>>) : a \in Pieces, b \in Pieces,
                               c \in {<<>>, <<"1", "0">>}, d \in Pieces }
    \cup { Dotted(<<a, <<"1">>, <<"2">>, d>>) : a \in OddPieces, d \in OddPieces }
    \cup { Dotted(<<a, b, <<"1">>>>) : a \in Pieces, b \in {<<"1">>} }
    \cup { Dotted(<<a, <<"1">>, <<"1">>, <<"1">>, b>>) : a \in Pieces, b \in {<<"1">>, <<>>} }
    \cup { <<>>, <<" ">> }

\* AInet4.fromValue(string), and toString() of the value made
Inet4(chars) ==
    LET made == Inet4FromValue(chars)
    IN  /\ Idle
        /\ applied' = Applied("AInet4.fromValue", chars)
        /\ returned' = [error |-> made.error, avalue |-> made.avalue,
                        string |-> IF made.error = "none"
                                     THEN Inet4ToString(made.avalue)
                                   ELSE <<>>]
        /\ UNCHANGED <<clientVars, serverVars, packetVars, dictVars, heapVars, requestVars>>

\* the type tags of ATTRIBUTE lines: those of typeMap, and others
TableTags ==
    { <<"s", "t", "r", "i", "n", "g">>,
      <<"o", "c", "t", "e", "t", "s">>,
      <<"u", "i", "n", "t", "8">>,
      <<"b", "y", "t", "e">>,
      <<"u", "i", "n", "t", "1", "6">>,
      <<"s", "h", "o", "r", "t">>,
      <<"i", "n", "t", "e", "g", "e", "r">>,
      <<"u", "i", "n", "t", "6", "4">>,
      <<"i", "n", "t", "e", "g", "e", "r", "6", "4">>,
      <<"s", "i", "g", "n", "e", "d">>,
      <<"i", "p", "a", "d", "d", "r">>,
      <<"i", "p", "v", "4", "p", "r", "e", "f", "i", "x">>,
      <<"i", "p", "v", "6", "a", "d", "d", "r">>,
      <<"i", "p", "v", "6", "p", "r", "e", "f", "i", "x">>,
      <<"i", "f", "i", "d">>,
      <<"d", "a", "t", "e">>,
      <<"t", "l", "v">>,
      <<"c", "o", "m", "b", "o", "-", "i", "p">>,
      <<"a", "b", "i", "n", "a", "r", "y">>,
      <<"e", "t", "h", "e", "r">>,
      <<"s", "t", "r", "u", "c", "t">>,
      <<"v", "s", "a">> }

OtherTags ==
    { <<"S", "t", "r", "i", "n", "g">>,
      <<"O", "C", "T", "E", "T", "S">>,
      <<"o", "c", "t", "e", "t", "s", "[", "1", "6", "]">>,
      <<"O", "c", "t", "e", "t", "s", "[", "8", "]">>,
      <<"o", "c", "t", "e", "t", "s", "[", "]">>,
      <<"o", "c", "t", "e", "t", "s", "[", "1", "a", "]">>,
      <<"o", "c", "t", "e", "t", "s", "[", "1", "6", "]", "x">>,
      <<"x", "o", "c", "t", "e", "t", "s", "[", "1", "]">>,
      <<"e", "x", "t", "e", "n", "d", "e", "d">>,
      <<"l", "o", "n", "g", "-", "e", "x", "t", "e", "n", "d", "e", "d">>,
      <<"u", "i", "n", "t", "3", "2">>,
      <<"f", "l", "o", "a", "t", "3", "2">>,
      <<"t", "i", "m", "e", "_", "d", "e", "l", "t", "a">>,
      <<>> }

\* addAttributeSpec(vendor, name, id, type) as far as the type of the entry
\* it makes
NewDictionaryEntry(chars) ==
    /\ Idle
    /\ applied' = Applied("new DictionaryEntry", chars)
    /\ returned' = EntryType(chars)
    /\ UNCHANGED <<clientVars, serverVars, packetVars, dictVars, heapVars, requestVars>>

\* AttributeList.fromWire of the bytes AttributeList#toWire wrote for the
\* attributes: the bytes given, and what the call comes to
ListRoundTrip(attrs, secret, authenticator) ==
    LET written == AttributeListToWire(attrs, Alloc(PACKET_BUFFER), 0, secret,
                                       authenticator)
        given == Slice(written.buf, 0, written.offset)
    IN  /\ Idle
        /\ written.error = "none"
        /\ applied' = Applied("AttributeList.fromWire(toWire)",
                              [attrs |-> attrs, secret |-> secret,
                               authenticator |-> authenticator])
        /\ returned' = [given |-> given,
                        read |-> AttributeListFromWire(given, 0, secret,
                                                       authenticator)]
        /\ UNCHANGED <<clientVars, serverVars, packetVars, dictVars, heapVars, requestVars>>

\* the lengths of the plain texts enciphered: one byte, the lengths around
\* one block, and the lengths around the longest text that pads to 240
PlainLengths == {1, 15, 16, 17, 240, 241, 253}

\* encodeMD5(password, secret, authenticator) for a password of the length
Encode(length, secret, authenticator) ==
    LET password == [i \in 1 .. length |-> 33 + (i % 90)]
    IN  /\ Idle
        /\ applied' = Applied("encodeMD5",
                              [password |-> password, secret |-> secret,
                               authenticator |-> authenticator])
        /\ returned' = [cipher |-> EncodeMD5(password, secret, authenticator)]
        /\ UNCHANGED <<clientVars, serverVars, packetVars, dictVars, heapVars, requestVars>>

\* the sub-attributes and values sent through toWire and fromWire under
\* each vendor format
VsaSubIds == {8, 200}
VsaValues == {<<7>>, Alice, [i \in 1 .. 200 |-> i]}

\* Attribute.fromWire of what Attribute#toWire wrote for a value of the
\* sub-attribute sub_id of the vendor
VsaRoundTrip(vendor, sub_id, value, secret, authenticator) ==
    LET attr == Attribute(WireVsa(vendor.id, sub_id), BufferValue(value))
        length == WireLength(attr.dict, value)
        written == AttributeToWire(attr, [i \in 1 .. length + 1 |-> 255], 0,
                                   secret, authenticator)
        encoded == Slice(written.buf, 0, length)
    IN  /\ Idle
        /\ applied' = Applied("Attribute.fromWire(toWire)",
                              [vendor |-> vendor, sub_id |-> sub_id,
                               value |-> value])
        /\ returned' = [encoded |-> encoded,
                        read |-> IF written.error # "none"
                                   THEN AttributeThrows(written.error, encoded)
                                 ELSE AttributeFromWire(encoded, secret,
                                                        authenticator)]
        /\ UNCHANGED <<clientVars, serverVars, packetVars, dictVars, heapVars, requestVars>>

\* Attribute.fromWire of a Vendor-Specific attribute whose body is the
\* first n bytes of the vendor's header
VsaShortBody(vendor, sub_id, secret, authenticator) ==
    LET header == BigEndian(vendor.id, 4)
                    \o BigEndian(sub_id, vendor.typeSize)
                    \o BigEndian(1, vendor.lengthSize)
    IN  /\ Idle
        /\ \E n \in 0 .. Len(header) :
             /\ applied' = Applied("Attribute.fromWire (VSA header)",
                                   [vendor |-> vendor, n |-> n])
             /\ returned' = AttributeFromWire(
                               <<VENDOR_SPECIFIC, 2 + n>> \o SubSeq(header, 1, n),
                               secret, authenticator)
        /\ UNCHANGED <<clientVars, serverVars, packetVars, dictVars, heapVars, requestVars>>

CallNext ==
    \/ \E attrs \in RoundTripAttributes, secret \in SecretBytes,
          authenticator \in AuthenticatorBytes :
         ListRoundTrip(attrs, secret, authenticator)
    \/ \E length \in PlainLengths, secret \in SecretBytes,
          authenticator \in AuthenticatorBytes :
         Encode(length, secret, authenticator)
    \/ \E vendor \in FormatVendors, sub_id \in VsaSubIds, value \in VsaValues :
         VsaRoundTrip(vendor, sub_id, value, Alloc(4), Alloc(16))
    \/ \E vendor \in FormatVendors :
         VsaShortBody(vendor, 8, Alloc(4), Alloc(16))
    \/ \E chars \in TableTags \cup OtherTags : NewDictionaryEntry(chars)
    \/ \E chars \in AddressStrings : Inet4(chars)
    \/ \E buf \in Streams, secret \in SecretBytes :
         ListFromWire(buf, secret, Alloc(16))
    \/ \E buf \in WireDatagrams \cup TrailedDatagrams, secret \in SecretBytes :
         FromWireCall(buf, secret)
    \/ \E value \in CodeFromArguments : From(value)
    \/ \E pkt \in RoundTripPackets, secret \in SecretBytes,
          response \in BOOLEAN :
         RoundTrip(pkt, secret, response)
    \/ \E attr \in WireAttributes, offset \in WireOffsets, room \in WireRoom,
          secret \in SecretBytes :
         AttributeToWireCall(attr, offset, room, secret, Alloc(16))
    \/ \E password \in Passwords, secret \in SecretBytes,
          authenticator \in AuthenticatorBytes :
         Transform(password, secret, authenticator)

(***************************************************************************)
(* Buffers handed to an ABuffer value and to a RadiusPacket, and what the  *)
(* caller does with them afterwards.                                       *)
(***************************************************************************)
MaxBuffers == 2

\* what a caller passes for a Buffer: a Buffer it holds, or a string
BufferArgument(view) == [kind |-> "Buffer", view |-> view]
StringArgument == [kind |-> "string", view |-> NoView]

\* the outcome of a call: the error thrown, and the Buffer returned
Outcome(error, view) == [error |-> error, view |-> view]

\* the contents the caller allocates: of 1, 2, 16, 17 and 254 bytes
Contents ==
    { <<1>>, <<1, 2>>, [i \in 1 .. 16 |-> i], [i \in 1 .. 17 |-> i],
      Alloc(254) }

\* Buffer.from(bytes) of the caller
BufferFrom(bytes) ==
    /\ Len(memory) < MaxBuffers
    /\ memory' = Append(memory, bytes)
    /\ held' = held \cup {View(Len(memory) + 1, 0, Len(bytes))}
    /\ applied' = Applied("Buffer.from", BufferArgument(NoView))
    /\ returned' = Outcome("none", View(Len(memory) + 1, 0, Len(bytes)))
    /\ UNCHANGED <<clientVars, serverVars, packetVars, dictVars, requestVars, closure>>

\* buf.writeUInt8(255, 0) of the caller on a Buffer it holds
WriteUInt8(view) ==
    /\ view.length > 0
    /\ memory' = [memory EXCEPT ![view.memory][view.offset + 1] = 255]
    /\ applied' = Applied("writeUInt8", BufferArgument(view))
    /\ returned' = Outcome("none", NoView)
    /\ UNCHANGED <<clientVars, serverVars, packetVars, dictVars, requestVars, held, closure>>

\* ABuffer.bufferCheck(buf, min, max): the error thrown, or "none"
BufferCheck(arg, least, most) ==
    IF arg.kind # "Buffer" THEN "TypeError"
    ELSE IF arg.view.length < least \/ arg.view.length > most THEN "RangeError"
    ELSE "none"

\* ABuffer.fromBuffer(buf): bufferCheck, then buf = buf.slice(0) is what
\* the getter of value closes over
OctetsFromBuffer(arg) ==
    /\ closure.buf = NoView
    /\ applied' = Applied("ABuffer.fromBuffer", arg)
    /\ returned' = Outcome(BufferCheck(arg, 1, 253), NoView)
    /\ closure' = IF BufferCheck(arg, 1, 253) = "none"
                    THEN [closure EXCEPT !.buf = SliceView(arg.view, 0)]
                  ELSE closure
    /\ UNCHANGED <<clientVars, serverVars, packetVars, dictVars, requestVars, memory, held>>

\* the getter of value: buf.slice(0)
OctetsValue ==
    /\ closure.buf # NoView
    /\ applied' = Applied("value", BufferArgument(NoView))
    /\ returned' = Outcome("none", SliceView(closure.buf, 0))
    /\ held' = held \cup {SliceView(closure.buf, 0)}
    /\ UNCHANGED <<clientVars, serverVars, packetVars, dictVars, requestVars, memory, closure>>

\* ABuffer#toBuffer: this.value.slice(0)
OctetsToBuffer ==
    /\ closure.buf # NoView
    /\ applied' = Applied("toBuffer", BufferArgument(NoView))
    /\ returned' = Outcome("none", SliceView(SliceView(closure.buf, 0), 0))
    /\ held' = held \cup {SliceView(SliceView(closure.buf, 0), 0)}
    /\ UNCHANGED <<clientVars, serverVars, packetVars, dictVars, requestVars, memory, closure>>

\* parseAuthenticator(authenticator): the error thrown, or "none"; what it
\* returns is the Buffer it was given
AuthenticatorCheck(arg) ==
    IF arg.kind # "Buffer" THEN "TypeError"
    ELSE IF arg.view.length # 16 THEN "RangeError"
    ELSE "none"

\* new RadiusPacket(code, id, authenticator, attrs)
NewRadiusPacket(arg) ==
    /\ closure.authenticator = NoView
    /\ applied' = Applied("new RadiusPacket", arg)
    /\ returned' = Outcome(AuthenticatorCheck(arg), NoView)
    /\ closure' = IF AuthenticatorCheck(arg) = "none"
                    THEN [closure EXCEPT !.authenticator = arg.view]
                  ELSE closure
    /\ UNCHANGED <<clientVars, serverVars, packetVars, dictVars, requestVars, memory, held>>

\* pkt.authenticator = val
SetAuthenticator(arg) ==
    /\ closure.authenticator # NoView
    /\ applied' = Applied("set authenticator", arg)
    /\ returned' = Outcome(AuthenticatorCheck(arg), NoView)
    /\ closure' = IF AuthenticatorCheck(arg) = "none"
                    THEN [closure EXCEPT !.authenticator = arg.view]
                  ELSE closure
    /\ UNCHANGED <<clientVars, serverVars, packetVars, dictVars, requestVars, memory, held>>

\* pkt.authenticator: authenticator.slice(0)
GetAuthenticator ==
    /\ closure.authenticator # NoView
    /\ applied' = Applied("get authenticator", BufferArgument(NoView))
    /\ returned' = Outcome("none", SliceView(closure.authenticator, 0))
    /\ held' = held \cup {SliceView(closure.authenticator, 0)}
    /\ UNCHANGED <<clientVars, serverVars, packetVars, dictVars, requestVars, memory, closure>>

BufferArguments == {BufferArgument(view) : view \in held} \cup {StringArgument}

HeapNext ==
    \/ \E bytes \in Contents : BufferFrom(bytes)
    \/ \E view \in held : WriteUInt8(view)
    \/ \E arg \in BufferArguments : OctetsFromBuffer(arg)
    \/ OctetsValue
    \/ OctetsToBuffer
    \/ \E arg \in BufferArguments : NewRadiusPacket(arg)
    \/ \E arg \in BufferArguments : SetAuthenticator(arg)
    \/ GetAuthenticator

(***************************************************************************)
(* lib/client.js: several requests of one client in flight at once.  Each  *)
(* call of _request has its own state, attempt and timer; the servers and  *)
(* their counters are the client's.                                        *)
(***************************************************************************)
MaxRequests == 3

\* an identifier from the low bit of the counter
IdentifierOfBit(id) == id % 2

\* server.id++ & 0xff: the identifier for a value of the counter
IdentifierOf(id) == id % 256

\* a getState that leaves the counter of the server where it is
GetStateStuck(r, n, started) ==
    LET mine == IF started THEN requests[r].state ELSE <<>>
        fresh == n \notin DOMAIN mine
        identifier == IdentifierOf(servers[n].id)
        st == IF fresh THEN (n :> [identifier |-> identifier]) @@ mine ELSE mine
        att == IF started THEN requests[r].attempt + 1 ELSE 0
    IN  /\ requests' = (r :> [state |-> st, attempt |-> att, settled |-> FALSE])
                         @@ requests
        /\ servers' = servers
        /\ taken' = IF fresh
                      THEN Append(taken, [server |-> n, request |-> r,
                                          identifier |-> identifier])
                    ELSE taken

\* getState(n) of request r: the state of server n, built on first use with
\* an identifier from the server's counter, which it advances
GetState(r, n, started) ==
    LET mine == IF started THEN requests[r].state ELSE <<>>
        fresh == n \notin DOMAIN mine
        identifier == IdentifierOf(servers[n].id)
        st == IF fresh THEN (n :> [identifier |-> identifier]) @@ mine ELSE mine
        att == IF started THEN requests[r].attempt + 1 ELSE 0
    IN  /\ requests' = (r :> [state |-> st, attempt |-> att, settled |-> FALSE])
                         @@ requests
        /\ servers' = IF fresh THEN [servers EXCEPT ![n].id = @ + 1] ELSE servers
        /\ taken' = IF fresh
                      THEN Append(taken, [server |-> n, request |-> r,
                                          identifier |-> identifier])
                    ELSE taken

RequestFrame ==
    UNCHANGED <<retry, code, state, timer, current, attempt, socket, promise,
                result, sent, uncaught, process, serverVars, packetVars,
                dictVars, applied, returned, heapVars>>

\* RadiusClient#request: the executor of the promise runs send() once
Issue ==
    /\ Len(requests) < MaxRequests
    /\ GetState(Len(requests) + 1, 0, FALSE)
    /\ RequestFrame

\* the timer of request r fires and send() runs again
Retransmit(r) ==
    /\ ~requests[r].settled
    /\ requests[r].attempt + 1 < max
    /\ GetState(r, (requests[r].attempt + 1) % slen, TRUE)
    /\ RequestFrame

\* the timer of request r fires after the last attempt: reject(timeout)
GiveUp(r) ==
    /\ ~requests[r].settled
    /\ ~(requests[r].attempt + 1 < max)
    /\ requests' = [requests EXCEPT ![r].settled = TRUE,
                                    ![r].attempt = @ + 1]
    /\ UNCHANGED <<servers, taken>>
    /\ RequestFrame

\* a response to request r passes the checks: clearTimeout and settle
Answered(r) ==
    /\ ~requests[r].settled
    /\ requests' = [requests EXCEPT ![r].settled = TRUE]
    /\ UNCHANGED <<servers, taken>>
    /\ RequestFrame

RequestsNext ==
    \/ Issue
    \/ \E r \in DOMAIN requests : Retransmit(r)
    \/ \E r \in DOMAIN requests : GiveUp(r)
    \/ \E r \in DOMAIN requests : Answered(r)

Init == ClientInit /\ ServerInit /\ PacketIdle /\ DictInit /\ CallIdle

\* one request of a client
Next == ClientNext

Spec == Init /\ [][Next]_vars

\* The proviso "the retry timer eventually fires": a timer does not stay
\* pending for ever without its callback running.
TimerFires == []<>(timer # "pending") \/ []<><<OnTimeout>>_vars

FairSpec == Spec /\ TimerFires

\* a server and the datagrams it is handed, beside a client that makes no
\* request
ServerSpecInit ==
    /\ ClientInit
    /\ DOMAIN servers = {0}
    /\ servers[0].id = 0
    /\ retry = 1
    /\ ServerInit
    /\ PacketIdle
    /\ DictInit
    /\ CallIdle

ServerSpec == ServerSpecInit /\ [][ServerNext]_vars

\* the handlers complete: a hook that is awaited returns or throws
HandlersComplete ==
    \A t \in 1 .. MaxDatagrams :
      WF_vars(\E outcome \in HookOutcomes : HookReturns(t, outcome))

FairServerSpec == ServerSpec /\ HandlersComplete

\* a client that makes no request and a server that is not started
EnginesIdle ==
    /\ ClientInit
    /\ DOMAIN servers = {0}
    /\ servers[0].id = 0
    /\ retry = 1
    /\ ServerInit
    /\ CallIdle

\* a decoded packet and a built one, and what callers do with them
PacketSpecInit == EnginesIdle /\ PacketInit /\ DictInit

PacketSpec == PacketSpecInit /\ [][PacketNext]_vars

\* the registry of a process, and what callers do with it
DictSpecInit == EnginesIdle /\ PacketIdle /\ DictInit

DictSpec == DictSpecInit /\ [][DictNext]_vars

\* the functions of the library, each applied to the arguments of its set
CallSpecInit ==
    /\ ClientInit
    /\ DOMAIN servers = {0}
    /\ servers[0].id = 0
    /\ retry = 1
    /\ ServerInit
    /\ PacketIdle
    /\ DictInit
    /\ CallIdle

CallSpec == CallSpecInit /\ [][CallNext]_vars

\* the requests of one client, made while others are in flight
RequestsSpec == Init /\ [][RequestsNext]_vars

\* the Buffers of a caller, an ABuffer value and a packet made from them
HeapSpec == CallSpecInit /\ [][HeapNext]_vars

(***************************************************************************)
(* The client engine's claims.                                             *)
(***************************************************************************)
settled == promise \in {"resolved", "rejected"}
acceptedResponse == settled /\ result.kind = "packet"
timedOut == promise = "rejected" /\ result = [kind |-> "error", error |-> "timeout"]
socketErrored == promise = "rejected" /\ result = [kind |-> "error", error |-> "socket"]

\* the port a request of the given code goes to on server n
PortOf(n, c) == IF c = ACCOUNTING_REQUEST THEN servers[n].acct ELSE servers[n].auth

\* the datagram sent last, the current attempt, and its server's secret
LastSent == sent[Len(sent)]
LastSecret == servers[(Len(sent) - 1) % Cardinality(DOMAIN servers)].secret

\* C1: within one request at most retry * server_count datagrams are sent,
\* and the i-th datagram sent (from 0) goes to servers[i mod server_count].
C1_RoundRobin ==
    /\ Len(sent) <= retry * Cardinality(DOMAIN servers)
    /\ \A i \in 1 .. Len(sent) :
         LET n == (i - 1) % Cardinality(DOMAIN servers)
         IN  /\ sent[i].address = servers[n].server
             /\ sent[i].port = PortOf(n, code)

C1_Witness ==
    /\ Cardinality(DOMAIN servers) = 2
    /\ retry = 2
    /\ Len(sent) = 4
    /\ timedOut

C2_Outcome ==
    /\ promise = "resolved" =>
         /\ result.kind = "packet"
         /\ <<code, result.packet.code>> \in
              {<<ACCESS_REQUEST, ACCESS_ACCEPT>>,
               <<ACCOUNTING_REQUEST, ACCOUNTING_RESPONSE>>}
    /\ promise = "rejected" =>
         \/ /\ result.kind = "packet"
            /\ code = ACCESS_REQUEST
            /\ result.packet.code = ACCESS_REJECT
         \/ timedOut /\ attempt = retry * Cardinality(DOMAIN servers)
         \/ socketErrored

ValidWireDatagram(c) ==
    [address |-> LastSent.address, port |-> LastSent.port, parses |-> "packet",
     code |-> c, identifier |-> LastSent.buffer.identifier, attrs |-> "attrs",
     authen |-> MD5(<<c, LastSent.buffer.identifier,
                      LastSent.buffer.authenticator, "attrs",
                      LastSecret>>)]

\* the datagrams of the model that fail exactly one check
FailsOneCheck(c) ==
    LET v == ValidWireDatagram(c)
    IN  { [v EXCEPT !.address = a] : a \in Addresses \ {v.address} }
        \cup { [v EXCEPT !.port = q] : q \in {AUTH_PORT, ACCT_PORT} \ {v.port} }
        \cup { [v EXCEPT !.parses = o] : o \in ParseOutcomes \ {"packet"} }
        \cup { [v EXCEPT !.identifier = i,
                         !.authen = MD5(<<c, i, LastSent.buffer.authenticator,
                                          "attrs", LastSecret>>)] :
                 i \in IdSeeds \ {v.identifier} }
        \cup { [v EXCEPT !.authen = d] :
                 d \in AuthenFields(c, v.identifier) \ {v.authen} }

\* whether a datagram passes the four checks against the attempt sent last
PassesAll(m) ==
    /\ m.address = LastSent.address
    /\ m.port = LastSent.port
    /\ m.parses = "packet"
    /\ m.identifier = LastSent.buffer.identifier
    /\ m.authen = MD5(<<m.code, m.identifier, LastSent.buffer.authenticator,
                        m.attrs, LastSecret>>)

\* the socket can be handed a datagram
Receiving == socket = "open" /\ process = "running"

\* the request is as it was: nothing settled, nothing cancelled or sent
Dropped == UNCHANGED <<promise, result, timer, socket, attempt, sent, state,
                       current, servers>>

C4_Expected(m) ==
    IF <<code, m.code>> \in {<<ACCESS_REQUEST, ACCESS_ACCEPT>>,
                             <<ACCOUNTING_REQUEST, ACCOUNTING_RESPONSE>>}
      THEN promise' = "resolved" /\ result' = [kind |-> "packet", packet |-> m]
    ELSE IF <<code, m.code>> = <<ACCESS_REQUEST, ACCESS_REJECT>>
      THEN promise' = "rejected" /\ result' = [kind |-> "packet", packet |-> m]
    ELSE promise' = "pending" /\ Dropped

C4_OutcomeByCodes ==
    Receiving =>
        \A c \in ResponseCodes :
            ENABLED (OnMessage(ValidWireDatagram(c)) /\ C4_Expected(ValidWireDatagram(c)))

C4_Witness ==
    /\ promise = "rejected"
    /\ result.kind = "packet"
    /\ result.packet.code = ACCESS_REJECT

\* the datagrams that pass every check but the signature check
BadAuthenticator(c) ==
    { [ValidWireDatagram(c) EXCEPT !.authen = d] :
        d \in AuthenFields(c, ValidWireDatagram(c).identifier)
                \ {ValidWireDatagram(c).authen} }

BadAuthenticatorIgnored ==
    Receiving =>
        \A c \in ResponseCodes : \A m \in BadAuthenticator(c) :
            ENABLED (OnMessage(m) /\ Dropped)

C6_AcceptedIsFinal ==
    /\ [](acceptedResponse => timer = "cleared" /\ socket = "closed")
    /\ [][acceptedResponse =>
            UNCHANGED <<sent, promise, result, attempt, uncaught>>]_vars

C6_Witness ==
    /\ acceptedResponse
    /\ attempt + 1 < retry * Cardinality(DOMAIN servers)

\* C7: when the socket raises an error the retry timer is cancelled at that
\* moment: no later firing of the timer sends on, or closes again, the
\* closed socket.
C7_ErrorCancelsTimer == socketErrored => (timer # "pending" /\ uncaught = 0)

Decoded ==
    { t \in DOMAIN txns :
        txns[t].status \notin {"unknown-client", "unparseable", "parsing"} }

\* the datagrams the server sent for transaction t
Answers(t) == { o \in DOMAIN out : out[o].txn = t }

\* transaction t was answered with one datagram of code c, sent from the
\* socket it arrived on to the address and port it came from
AnsweredWith(t, c) ==
    /\ Cardinality(Answers(t)) = 1
    /\ \A o \in Answers(t) :
         /\ out[o].buffer.code = c
         /\ out[o].buffer.identifier = txns[t].req.identifier
         /\ out[o].type = txns[t].type
         /\ out[o].address = txns[t].address
         /\ out[o].port = txns[t].port

\* C9: with no handler registered, an Access-Request on the auth socket is
\* answered with Access-Reject, an Accounting-Request on the acct socket
\* with Accounting-Response, and a request of any other code but
\* Status-Server gets no response.
C9_DefaultResponses ==
    handlers = <<>> =>
      \A t \in Decoded :
        LET txn == txns[t]
        IN  txn.req.code # STATUS_SERVER =>
              IF txn.type = "auth" /\ txn.req.code = ACCESS_REQUEST
                THEN AnsweredWith(t, ACCESS_REJECT)
              ELSE IF txn.type = "acct" /\ txn.req.code = ACCOUNTING_REQUEST
                THEN AnsweredWith(t, ACCOUNTING_RESPONSE)
              ELSE Answers(t) = {}

\* a server without handlers has answered an Access-Request on its auth
\* socket and has ignored an Access-Request on its acct socket
C9_Witness ==
    /\ handlers = <<>>
    /\ \E t \in Decoded :
         /\ txns[t].type = "auth" /\ txns[t].req.code = ACCESS_REQUEST
         /\ AnsweredWith(t, ACCESS_REJECT)
    /\ \E t \in Decoded :
         /\ txns[t].type = "acct" /\ txns[t].req.code = ACCESS_REQUEST
         /\ Answers(t) = {}

\* C10: a Status-Server request of a registered client is answered without
\* any handler being called, with Access-Accept on the auth socket and with
\* Accounting-Response on the acct socket.
C10_StatusServerAnswered ==
    \A t \in Decoded :
      txns[t].req.code = STATUS_SERVER =>
        /\ txns[t].log = <<>>
        /\ txns[t].type = "auth" => AnsweredWith(t, ACCESS_ACCEPT)
        /\ txns[t].type = "acct" => AnsweredWith(t, ACCOUNTING_RESPONSE)

\* C10, on the auth socket alone: the Status-Server request is answered
\* with Access-Accept.
C10_AuthStatusServerAccepted ==
    \A t \in Decoded :
      txns[t].req.code = STATUS_SERVER /\ txns[t].type = "auth" =>
        AnsweredWith(t, ACCESS_ACCEPT)

\* the positions in state.handlers of the handlers with a hook for the type
HookIndices(type) == { j \in 1 .. Len(handlers) : handlers[j][type] }

\* the hooks called for transaction t, and those that returned, in order
CalledHooks(t) ==
    LET calls == SelectSeq(txns[t].log, LAMBDA e : e[1] = "call")
    IN  [k \in 1 .. Len(calls) |-> calls[k][2]]

ReturnedHooks(t) ==
    LET returns == SelectSeq(txns[t].log, LAMBDA e : e[1] = "return")
    IN  [k \in 1 .. Len(returns) |-> returns[k][2]]

\* res once the hooks at the given positions have worked on it, in order
RECURSIVE ApplyHooks(_, _)
ApplyHooks(res, hooks) ==
    IF hooks = <<>> THEN res
    ELSE ApplyHooks(ApplyEffect(res, handlers[Head(hooks)].effect), Tail(hooks))

\* the response of transaction t as the hooks that returned have left it
ResponseAsItStands(t) ==
    ApplyHooks(DefaultResponse(txns[t].type, txns[t].req), ReturnedHooks(t))

\* the requests the handlers are consulted for
Handled ==
    { t \in Decoded : /\ txns[t].req.code # STATUS_SERVER
                      /\ txns[t].status # "unexpected-code" }

\* the hooks of transaction t ran in registration order, one at a time
InRegistrationOrder(t) ==
    LET log == txns[t].log
        called == CalledHooks(t)
    IN  /\ \A i \in DOMAIN log :
             IF i % 2 = 1 THEN log[i][1] = "call"
             ELSE log[i][1] = "return" /\ log[i][2] = log[i - 1][2]
        /\ \A k \in DOMAIN called :
             /\ called[k] \in HookIndices(txns[t].type)
             /\ Cardinality({ j \in HookIndices(txns[t].type) : j <= called[k] }) = k
        /\ (txns[t].status = "awaiting") = (Len(log) % 2 = 1)

\* a truthy result ended the chain of transaction t and the response went
\* to the socket as the hooks had left it
TruthyEndsChain(t) ==
    LET log == txns[t].log
    IN  \A i \in DOMAIN log :
          log[i][1] = "return" /\ log[i][3] = "truthy" =>
            /\ i = Len(log)
            /\ txns[t].status \in {"sent", "send-failed"}
            /\ txns[t].status = "sent" =>
                 \E o \in Answers(t) :
                   out[o].buffer = ToWire(ResponseAsItStands(t), txns[t].secret)

\* a hook with a falsy result is followed by the next registered hook
FalsyGoesOn ==
    \A t \in DOMAIN txns, j \in 1 .. MaxHandlers :
      /\ HookReturns(t, "falsy")
      /\ j \in HookIndices(txns[t].type)
      /\ j > txns[t].running
      => txns'[t].status = "awaiting" /\ txns'[t].running >= txns[t].running + 1
                                     /\ txns'[t].running <= j

\* C11: for a request other than Status-Server the hooks of the socket's
\* role are called one at a time in registration order, each after the one
\* before it has completed; a truthy result ends the chain and the response
\* is sent as it then stands.
C11_HooksInOrder ==
    /\ [](\A t \in Handled : InRegistrationOrder(t) /\ TruthyEndsChain(t))
    /\ [][FalsyGoesOn]_vars

\* one request went through two hooks and was answered, another was answered
\* after the first of two hooks returned a truthy result
C11_Witness ==
    /\ \E t \in Handled :
         /\ CalledHooks(t) = <<1, 2>>
         /\ txns[t].status = "sent"
    /\ \E t \in Handled :
         /\ Len(txns[t].log) = 2
         /\ txns[t].log[2] = <<"return", 1, "truthy">>
         /\ Cardinality(HookIndices(txns[t].type)) = 2
         /\ txns[t].status = "sent"

\* the entries of the log of transaction t at which a hook threw
Thrown(t) ==
    { i \in DOMAIN txns[t].log :
        txns[t].log[i][1] = "return" /\ txns[t].log[i][3] = "throws" }

\* C12: once a hook has raised, or the promise it returned has rejected, no
\* further hook is called for the request and no response datagram is sent
\* for it.
C12_ThrowAbortsSilently ==
    \A t \in DOMAIN txns :
      \A i \in Thrown(t) :
        /\ i = Len(txns[t].log)
        /\ txns[t].status = "aborted"
        /\ Answers(t) = {}

\* the first of two registered hooks threw, and the server has gone on to
\* serve another datagram
C12_Witness ==
    \E t \in DOMAIN txns :
      /\ Thrown(t) = {2}
      /\ Cardinality(HookIndices(txns[t].type)) = 2
      /\ t < Len(txns)

\* what the message handler does with a datagram of an unregistered source:
\* it notes the datagram and returns
DroppedAsUnknown(type, d) ==
    /\ ServerMessage(type, d)
    /\ txns' = Append(txns, [type |-> type, address |-> d.address,
                             port |-> d.port, secret |-> 0, req |-> NoPacket,
                             res |-> NoPacket, running |-> 0, log |-> <<>>,
                             status |-> "unknown-client"])
    /\ UNCHANGED <<clients, handlers, sockets, out, serverProcess>>

\* C13: a datagram whose source address is not in the clients registry is
\* dropped: it is not decoded, no hook is called for it and no response is
\* sent.
C13_UnknownClientDropped ==
    /\ \A type \in SocketTypes, d \in ServerDatagrams :
         d.address \notin DOMAIN clients /\ ENABLED ServerMessage(type, d)
           => ENABLED DroppedAsUnknown(type, d)
    /\ \A t \in DOMAIN txns :
         /\ txns[t].address \notin DOMAIN clients
              => txns[t].status = "unknown-client"
         /\ txns[t].status = "unknown-client"
              => /\ txns[t].req = NoPacket
                 /\ txns[t].log = <<>>
                 /\ Answers(t) = {}

\* a server with a registered client and a handler has dropped the datagram
\* of another address and then answered its client
C13_Witness ==
    /\ handlers # <<>>
    /\ \E t \in DOMAIN txns :
         /\ txns[t].address \notin DOMAIN clients
         /\ txns[t].status = "unknown-client"
         /\ \E u \in DOMAIN txns : u > t /\ txns[u].status = "sent"

\* the Proxy-State attributes of a list, in the order they have in it
RECURSIVE ProxyStates(_)
ProxyStates(attributes) ==
    IF attributes = <<>> THEN <<>>
    ELSE IF Head(attributes).name = "Proxy-State"
      THEN <<Head(attributes)>> \o ProxyStates(Tail(attributes))
    ELSE ProxyStates(Tail(attributes))

\* the transactions that have a default response no hook has worked on yet
Untouched ==
    { t \in Handled \cup { u \in Decoded : txns[u].req.code = STATUS_SERVER } :
        /\ txns[t].status \in {"awaiting", "sent", "send-failed"}
        /\ ReturnedHooks(t) = <<>> }

\* C14: the default response carries the request's identifier and the
\* request's authenticator, and until a hook has worked on it its attributes
\* are the request's Proxy-State attributes, in their order, and no other.
C14_DefaultResponseContents ==
    \A t \in Untouched :
      /\ txns[t].res.identifier = txns[t].req.identifier
      /\ txns[t].res.authenticator = txns[t].req.authenticator
      /\ txns[t].res.attributes = ProxyStates(txns[t].req.attributes)
      /\ txns[t].status = "sent" =>
           \A o \in Answers(t) :
             /\ out[o].buffer.identifier = txns[t].req.identifier
             /\ out[o].buffer.attributes = ProxyStates(txns[t].req.attributes)
             /\ out[o].buffer.authen =
                  MD5(<<out[o].buffer.code, txns[t].req.identifier,
                        txns[t].req.authenticator,
                        ProxyStates(txns[t].req.attributes), txns[t].secret>>)

\* a request with a User-Name between two Proxy-States has its default
\* response, with the two Proxy-States, waiting for the first hook
C14_Witness ==
    \E t \in Untouched :
      /\ txns[t].status = "awaiting"
      /\ Len(txns[t].req.attributes) = 3
      /\ Len(txns[t].res.attributes) = 2
      /\ txns[t].res.attributes[1].value = "a"
      /\ txns[t].res.attributes[2].value = "b"

\* datagram o of out is a whole response to transaction t: a packet of a
\* known code with the request's identifier, whose authenticator field is
\* the MD5 response authenticator under the secret of the requesting
\* client, sent to where the request came from
WholeResponse(o, t) ==
    /\ out[o].buffer.code \in Codes
    /\ out[o].buffer.identifier = txns[t].req.identifier
    /\ txns[t].secret \in ClientSecrets
    /\ out[o].buffer.authen =
         MD5(<<out[o].buffer.code, out[o].buffer.identifier,
               txns[t].req.authenticator, out[o].buffer.attributes,
               txns[t].secret>>)
    /\ out[o].type = txns[t].type
    /\ out[o].address = txns[t].address
    /\ out[o].port = txns[t].port

\* C15: for each datagram received the server sends at most one datagram,
\* and one it sends is a whole response packet, encoded as a response under
\* the requesting client's secret and addressed to the request's source
\* address and port.
C15_AtMostOneResponse ==
    /\ \A o \in DOMAIN out : out[o].txn \in Decoded
    /\ \A t \in DOMAIN txns :
         /\ Cardinality(Answers(t)) <= 1
         /\ \A o \in Answers(t) : WholeResponse(o, t)

\* two requests from different ports were each answered once, one of them
\* after a hook had worked on the response
C15_Witness ==
    /\ Len(out) = 2
    /\ \E t, u \in DOMAIN txns :
         /\ txns[t].port # txns[u].port
         /\ txns[t].log # <<>>
         /\ Cardinality(Answers(t)) = 1
         /\ Cardinality(Answers(u)) = 1

(***************************************************************************)
(* The claims about packets and attribute lists.                           *)
(***************************************************************************)
\* C16: a packet produced by fromWire is read-only: whatever assignments to
\* its code or authenticator and whatever calls to add were attempted, its
\* code, identifier, authenticator and attribute list are those it was
\* decoded with.
C16_DecodedPacketReadOnly ==
    "decoded" \in DOMAIN packets =>
      /\ packets["decoded"].code = wire.code
      /\ packets["decoded"].identifier = wire.identifier
      /\ packets["decoded"].authenticator = wire.authenticator
      /\ Iterate(packets["decoded"].attributes) = wire.attributes
      /\ lastCall.target = "decoded" /\ lastCall.op = "add"
           => lastCall.error = "Error"

\* the built packet has taken a code, an authenticator and an attribute, and
\* the last call was an add on the decoded packet
C16_Witness ==
    /\ "decoded" \in DOMAIN packets
    /\ lastCall = [op |-> "add", target |-> "decoded", error |-> "Error"]
    /\ packets["built"].code = ACCESS_ACCEPT
    /\ packets["built"].authenticator # wire.authenticator
    /\ added # <<>>

\* C17: an AttributeList keeps the attributes it was given in the order it
\* was given them, duplicates included, and iterating it yields just these;
\* a read-only list answers every add with an error and stays as it was.
C17_ListKeepsInsertionOrder ==
    "built" \in DOMAIN packets =>
      /\ Iterate(packets["built"].attributes) = added
      /\ \A target \in PacketTargets :
           /\ packets[target].attributes.readonly
           /\ lastCall.target = target
           /\ lastCall.op = "add"
           => /\ lastCall.error = "Error"
              /\ Iterate(packets[target].attributes) = wire.attributes

\* a list was given a User-Name, a Proxy-State and the User-Name again and
\* holds the three in that order, and the read-only list has just refused
\* an add
C17_Witness ==
    /\ "built" \in DOMAIN packets
    /\ added = <<Attr("User-Name", "u"), Attr("Proxy-State", "a"),
                 Attr("User-Name", "u")>>
    /\ Iterate(packets["built"].attributes) = added
    /\ lastCall = [op |-> "add", target |-> "decoded", error |-> "Error"]

(***************************************************************************)
(* The claims about the dictionary.                                        *)
(***************************************************************************)
\* what a lookup comes to in the registry as it stands
Lookup(call) ==
    CASE call.op = "get" -> DictionaryGet(Registry, call.a)
      [] call.op = "vendor" -> DictionaryVendor(Registry, call.a)
      [] call.op = "vsa" -> DictionaryVsa(Registry, call.a, call.b)

\* C18: lookups are idempotent: whatever was loaded since a lookup returned
\* a descriptor, the same lookup made again returns that same descriptor.
C18_LookupsIdempotent ==
    lastLookup.call.op # "none" /\ lastLookup.error = "none" =>
      /\ Lookup(lastLookup.call).error = "none"
      /\ Lookup(lastLookup.call).instance = lastLookup.instance

\* every DictionaryEntry the registry holds, in dict or in a vendor's table
Entries ==
    { dict.byId[id] : id \in DOMAIN dict.byId }
    \cup { dict.byName[name] : name \in DOMAIN dict.byName }
    \cup UNION { { vsas[v][sub] : sub \in DOMAIN vsas[v] } : v \in DOMAIN vsas }

\* the attribute lists of up to two attributes made for entries of the
\* registry
AttributeLists ==
    LET attrs == { [dict |-> e.instance, value |-> v] :
                     e \in Entries, v \in {"a", "b"} }
    IN  {<<>>} \cup { <<a>> : a \in attrs }
        \cup { <<a, b>> : a \in attrs, b \in attrs }

\* lookup by the entry's name and by the entry's id come to the same
\* descriptor, and has, get and getAll to the same result
NameAndIdAgree(e) ==
    /\ DictionaryGet(Registry, String(e.name)).instance
         = DictionaryGet(Registry, Number(e.id)).instance
    /\ \A attributes \in AttributeLists :
         /\ PacketHas(Registry, attributes, String(e.name))
              = PacketHas(Registry, attributes, Number(e.id))
         /\ PacketGet(Registry, attributes, String(e.name))
              = PacketGet(Registry, attributes, Number(e.id))
         /\ PacketGetAll(Registry, attributes, String(e.name))
              = PacketGetAll(Registry, attributes, Number(e.id))

GetError(x) ==
    CASE x.kind = "number" ->
           IF x.number = 0 \/ x.number >= 256 THEN "RangeError" ELSE "none"
      [] x.kind = "string" ->
           IF ToLowerCase(x.text) \in DOMAIN dict.byName THEN "none"
           ELSE "RangeError"
      [] x.kind = "fraction" -> "TypeError"
      [] x.kind = "other" -> "TypeError"

\* C20: get fails with a RangeError for 0, for a number from 256 on and for
\* an unknown name, with a TypeError for a number that is no integer and for
\* what is neither a string nor a number, and a failing get leaves the
\* registry as it was.
C20_GetFails ==
    [][\A x \in GetArguments :
         Get(x) /\ GetError(x) # "none"
           => /\ lastLookup'.error = GetError(x)
              /\ UNCHANGED <<dict, vendors, vsas, instances>>]_vars

\* after a file was loaded, get(0) has just failed with a RangeError
C20_Witness ==
    /\ loaded # <<>>
    /\ dict.byId # <<>>
    /\ lastLookup = [call |-> Call("get", Number(0), Other),
                     error |-> "RangeError", instance |-> NoInstance]

\* the vendor ids the VENDOR directives of a file name
VendorDirectives(file) ==
    { DictionaryFiles[file][i][3] :
        i \in { j \in DOMAIN DictionaryFiles[file] :
                  DictionaryFiles[file][j][1] = "VENDOR" } }

\* C21: vendor ids are unique: whatever is done, the Vendor an id has stays
\* the Vendor of that id; a load that meets a VENDOR directive for an id
\* that has a Vendor, from an earlier directive or synthesized by vendor or
\* vsa, fails; and a lookup of an id that has a Vendor returns that Vendor.
C21_VendorIdsUnique ==
    [][/\ \A id \in DOMAIN vendors.byId :
            /\ id \in DOMAIN vendors'.byId
            /\ vendors'.byId[id] = vendors.byId[id]
       /\ \A file \in DOMAIN DictionaryFiles :
            /\ Load(file)
            /\ VendorDirectives(file) \cap DOMAIN vendors.byId # {}
            => dictProcess' = "exited"
       /\ \A x \in VendorArguments :
            /\ Vendor(x)
            /\ x.kind = "number"
            /\ x.number \in DOMAIN vendors.byId
            => lastLookup'.instance = vendors.byId[x.number].instance]_vars

\* vendor 4846 was synthesized by a lookup, and the file that has a VENDOR
\* directive for 4846 was loaded after and failed
C21_Witness ==
    /\ dictProcess = "exited"
    /\ loaded # <<>>
    /\ loaded[Len(loaded)] = "lucent"
    /\ 4846 \in DOMAIN vendors.byId
    /\ vendors.byId[4846].name = VendorName(4846)

(***************************************************************************)
(* The claims about the functions of the library.                          *)
(***************************************************************************)
\* two strings are the same name but for the case of their letters and for
\* underscores in the place of hyphens
SameName(a, b) ==
    Underscored(ToLowerCaseChars(a)) = Underscored(ToLowerCaseChars(b))

\* the code a value denotes: its own for the numeric value of a code, for
\* a name of the code and for the instance, 0 for every other value
Denotes(value) ==
    CASE value.kind = "number" /\ value.number \in Codes -> value.number
      [] value.kind = "instance" -> value.number
      [] /\ value.kind = "string"
         /\ \E c \in DOMAIN Spelling : SameName(value.chars, Spelling[c]) ->
           CHOOSE c \in DOMAIN Spelling : SameName(value.chars, Spelling[c])
      [] OTHER -> 0

\* C22: Code.from returns the one instance of a code for the code's numeric
\* value, for its name in any letter case with hyphen or underscore and for
\* the instance itself, and fails for every other value.
C22_CodeFromClosed ==
    applied.function = "Code.from" =>
      IF Denotes(applied.argument) # 0
        THEN returned = FromReturns("instance", Denotes(applied.argument))
      ELSE returned.error # "none"

C27_ToWireFailsOnOverflowOnly ==
    applied.function = "Attribute#toWire" =>
      LET a == applied.argument
          length == WireLength(a.attr.dict,
                               WireValue(a.attr, a.secret, a.authenticator))
      IN  /\ returned.error = "RangeError" <=> a.offset + length > Len(a.buf)
          /\ returned.error # "none" => returned.buf = a.buf

\* C23: a packet sent through toWire(secret, true) and fromWire(secret)
\* comes back with the same code, the same identifier, as many attributes,
\* and attribute for attribute the same name and value in the same order.
C23_PacketRoundTrip ==
    applied.function = "fromWire(toWire)" /\ applied.argument.response =>
      LET original == applied.argument.packet
          back == returned.packet
      IN  /\ returned.error = "none"
          /\ back.code = original.code
          /\ back.identifier = original.identifier
          /\ Len(back.attributes) = Len(original.attributes)
          /\ \A i \in DOMAIN original.attributes :
               /\ back.attributes[i].dict.name = original.attributes[i].dict.name
               /\ back.attributes[i].avalue = original.attributes[i].avalue

\* from the n-th byte (0-based) of buf on, where the attributes that are
\* framed as the wire format has them end: each has a length byte of 2 or
\* more and all its bytes
RECURSIVE Unframed(_, _)
Unframed(buf, n) ==
    IF Len(buf) - n < 2 THEN n
    ELSE IF buf[n + 2] < 2 \/ n + buf[n + 2] > Len(buf) THEN n
    ELSE Unframed(buf, n + buf[n + 2])

\* the buffer has an attribute whose length byte is more than the bytes
\* that are left for it
LengthMismatch(buf) ==
    LET n == Unframed(buf, HEADER_LENGTH)
    IN  Len(buf) - n >= 2 /\ n + buf[n + 2] > Len(buf)

\* C24: RadiusPacket.fromWire rejects every buffer of fewer than 20 bytes,
\* every buffer whose length field is more than its length, and every buffer
\* with an attribute whose length byte does not match its slice; none of
\* them makes a packet.
C24_FromWireRejects ==
    applied.function = "RadiusPacket.fromWire" =>
      LET buf == applied.argument.buf
      IN  (\/ Len(buf) < HEADER_LENGTH
           \/ ReadUIntBE(Slice(buf, 2, 4)) > Len(buf)
           \/ LengthMismatch(buf))
          => returned.error \in {"Error", "RangeError", "TypeError"}

\* C25: AttributeList.fromWire of a stream that ends in one byte after its
\* attributes returns: the byte is dropped and the attributes before it come
\* back in order.
C25_TailDiscarded ==
    applied.function = "AttributeList.fromWire" =>
      LET buf == applied.argument.buf
          n == Unframed(buf, 0)
      IN  Len(buf) - n = 1 =>
            /\ returned.error = "none"
            /\ returned.attrs =
                 AttributeListFromWire(SubSeq(buf, 1, n), 0,
                                       applied.argument.secret,
                                       applied.argument.authenticator).attrs

\* the piece is an octet written in decimal digits
IsOctet(piece) ==
    /\ piece # <<>>
    /\ \A i \in DOMAIN piece : IsDigit(piece[i], DecimalDigits)
    /\ Len(piece) <= 3
    /\ Digits(piece, DecimalDigits, 10, 0).n <= 255

\* the string is four octets, each written as String(n) writes it
IsCanonical(chars) ==
    LET pieces == Split(chars, <<>>)
    IN  /\ Len(pieces) = 4
        /\ \A i \in DOMAIN pieces :
             /\ IsOctet(pieces[i])
             /\ pieces[i] = NumberToString(Digits(pieces[i], DecimalDigits,
                                                  10, 0).n)

\* C28: AInet4.fromValue takes a string only if its pieces between the dots
\* are four, each an octet of 0..255 (no empty piece, no number out of
\* range, no other count of pieces), and for a canonical dotted quad s,
\* fromValue(s).toString() is s.
C28_Inet4FromString ==
    applied.function = "AInet4.fromValue" =>
      LET pieces == Split(applied.argument, <<>>)
      IN  /\ returned.error = "none" =>
                Len(pieces) = 4 /\ \A i \in DOMAIN pieces : IsOctet(pieces[i])
          /\ IsCanonical(applied.argument) =>
                returned.error = "none" /\ returned.string = applied.argument

\* the bytes an ABuffer value holds, and those of a packet's authenticator
ValueBytes == BytesOf(memory, closure.buf)
AuthenticatorOf == BytesOf(memory, closure.authenticator)

\* C29: ABuffer.fromBuffer copies its input: for a Buffer b of 1..253 bytes
\* the value made holds the bytes of b, and no later write to b or to a
\* Buffer that toBuffer() or value returned changes the bytes it holds.
C29_OctetsCopied ==
    /\ [](applied.function = "ABuffer.fromBuffer" /\ returned.error = "none"
            => ValueBytes = BytesOf(memory, applied.argument.view))
    /\ [][closure.buf # NoView /\ closure.buf' = closure.buf
            => ValueBytes' = ValueBytes]_vars

\* C30: the authenticator of a packet is 16 bytes at all times; the
\* constructor and the setter refuse what is no Buffer or is not 16 bytes
\* long and leave the packet as it was; and what is stored is a copy, which
\* no write to the Buffer passed in or to one the getter returned changes.
C30_AuthenticatorKept ==
    /\ [](closure.authenticator # NoView => Len(AuthenticatorOf) = 16)
    /\ [](applied.function \in {"new RadiusPacket", "set authenticator"} =>
            (returned.error # "none" <=>
               \/ applied.argument.kind # "Buffer"
               \/ applied.argument.view.length # 16))
    /\ [][applied'.function \in {"new RadiusPacket", "set authenticator"}
          /\ returned'.error # "none"
            => closure' = closure /\ AuthenticatorOf' = AuthenticatorOf]_vars
    /\ [][closure.authenticator # NoView
          /\ closure.authenticator' = closure.authenticator
            => AuthenticatorOf' = AuthenticatorOf]_vars

\* the tags the library has a codec of its own for
SupportedTags ==
    {"string", "octets", "uint8", "byte", "uint16", "short", "integer",
     "signed", "ipaddr", "date", "vsa"}

C32_StateBuiltOnce ==
    /\ [](\A i \in DOMAIN sent :
            LET n == (i - 1) % slen
            IN  /\ n \in DOMAIN state
                /\ sent[i].buffer = state[n].buffer
                /\ sent[i].buffer.identifier = state[n].identifier
                /\ sent[i].buffer.authenticator = state[n].authenticator)
    /\ [][/\ \A n \in DOMAIN state : n \in DOMAIN state' /\ state'[n] = state[n]
          /\ \A n \in DOMAIN servers :
               servers'[n].id # servers[n].id =>
                 /\ n \notin DOMAIN state
                 /\ n \in DOMAIN state'
                 /\ servers'[n].id = servers[n].id + 1
                 /\ state'[n].identifier = servers[n].id % 256]_vars

C32_Witness ==
    /\ slen = 2
    /\ Len(sent) >= 3
    /\ sent[3] = sent[1]
    /\ sent[2] # sent[1]

\* the allocations for server n, in order
TakenFor(n) == SelectSeq(taken, LAMBDA t : t.server = n)

\* C33: the counter of a server advances by one per identifier allocated,
\* every identifier is in 0..255, and allocations for a server that follow
\* each other take identifiers that follow each other mod 256.
C33_ConsecutiveIdentifiers ==
    /\ [](\A n \in DOMAIN servers :
            LET mine == TakenFor(n)
            IN  /\ \A i \in DOMAIN mine : mine[i].identifier \in 0 .. 255
                /\ \A i \in 1 .. Len(mine) - 1 :
                     mine[i + 1].identifier = (mine[i].identifier + 1) % 256)
    /\ [][\A n \in DOMAIN servers :
            /\ servers'[n].id = servers[n].id + Len(TakenFor(n)') - Len(TakenFor(n))
            /\ Len(TakenFor(n)') - Len(TakenFor(n)) \in {0, 1}]_vars

C33_Witness ==
    /\ Len(TakenFor(0)) = 3
    /\ TakenFor(0)[1].identifier = 255
    /\ TakenFor(0)[2].identifier = 0
    /\ TakenFor(0)[3].identifier = 1

\* C39: two requests of one client whose allocations for a server are fewer
\* than 256 apart carry different identifiers to that server, however their
\* sends, retries and responses interleave.
C39_IdentifiersDiffer ==
    \A n \in DOMAIN servers :
      LET mine == TakenFor(n)
      IN  \A i, j \in DOMAIN mine :
            i < j /\ j - i < 256 =>
              /\ mine[i].request # mine[j].request
              /\ mine[i].identifier # mine[j].identifier
              /\ requests[mine[i].request].state[n].identifier = mine[i].identifier
              /\ requests[mine[j].request].state[n].identifier = mine[j].identifier

C39_Witness ==
    /\ slen = 2
    /\ Len(taken) = 4
    /\ taken[1].request = 1 /\ taken[1].server = 0
    /\ taken[2].request = 2 /\ taken[2].server = 0
    /\ taken[3].request = 2 /\ taken[3].server = 1
    /\ taken[4].request = 1 /\ taken[4].server = 1
    /\ ~requests[1].settled /\ ~requests[2].settled

\* C34: RadiusPacket.fromWire decodes the attributes from offset 20 to the
\* declared length: the bytes of the datagram after the declared length give
\* the packet no attribute and do not make the decoding fail.
C34_DecodesDeclaredLength ==
    applied.function = "RadiusPacket.fromWire" =>
      LET buf == applied.argument.buf
          declared == ReadUIntBE(Slice(buf, 2, 4))
          within == RadiusPacketFromWire(Slice(buf, 0, declared),
                                         applied.argument.secret)
      IN  /\ Len(buf) >= HEADER_LENGTH
          /\ declared >= HEADER_LENGTH
          /\ declared <= Len(buf)
          /\ within.error = "none"
          => returned = within

\* the header Attribute#toWire writes before a value of the sub-attribute
\* under the vendor's format: the vendor, the sub-attribute in typeSize
\* bytes and, unless lengthSize is 0, the length of the value
VsaHeader(vendor, sub_id, value) ==
    BigEndian(vendor.id, 4) \o BigEndian(sub_id, vendor.typeSize)
      \o (IF vendor.lengthSize = 0 THEN <<>>
          ELSE BigEndian(Len(value), vendor.lengthSize))

\* C35: under every vendor format (typeSize 1, 2 or 4, lengthSize 0, 1 or
\* 2) Attribute.fromWire of what Attribute#toWire wrote for a
\* vendor-specific value gives the entry Dictionary.vsa(vendor_id, sub_id)
\* and the same value bytes; the encoding carries no sub-length when
\* lengthSize is 0, the value being the rest of the body; and a body
\* shorter than 4 + typeSize + lengthSize is rejected with a RangeError
C35_VsaRoundTrip ==
    /\ applied.function = "Attribute.fromWire(toWire)" =>
          LET vendor == applied.argument.vendor
              sub_id == applied.argument.sub_id
              value == applied.argument.value
              header == VsaHeader(vendor, sub_id, value)
          IN  /\ returned.read.error = "none"
              /\ returned.read.attr.dict = WireVsa(vendor.id, sub_id)
              /\ returned.read.attr.dict.vendor = vendor
              /\ returned.read.attr.avalue.buf = value
              /\ returned.encoded
                   = <<VENDOR_SPECIFIC, 2 + Len(header) + Len(value)>>
                       \o header \o value
    /\ ( /\ applied.function = "Attribute.fromWire (VSA header)"
         /\ applied.argument.n < 4 + applied.argument.vendor.typeSize
                                   + applied.argument.vendor.lengthSize )
         => returned.error = "RangeError"

\* a value read back under the format of four-byte sub-attributes without
\* a sub-length
C35_Witness ==
    /\ applied.function = "Attribute.fromWire(toWire)"
    /\ applied.argument.vendor = FormatVendor(4, 0)
    /\ applied.argument.value = Alice
    /\ returned.read.error = "none"
    /\ returned.read.attr.avalue.buf = Alice
    /\ Len(returned.encoded) = 10 + Len(Alice)

\* C36: the cipher text encodeMD5 makes of a plain text of 1 to 253 bytes
\* is as long as the smallest multiple of 16 that is at least the length of
\* the plain text
C36_CipherLength ==
    ( /\ applied.function = "encodeMD5"
      /\ Len(applied.argument.password) \in 1 .. 253 )
      => Len(returned.cipher)
           = 16 * ((Len(applied.argument.password) + 15) \div 16)

\* a plain text of 240 bytes is enciphered in 240 bytes
C36_Reached ==
    /\ applied.function = "encodeMD5"
    /\ Len(applied.argument.password) = 240
    /\ Len(returned.cipher) = 240

\* how the message callback has ended for a datagram: it returned without
\* a response, or the response was handed to socket.send
Completed ==
    {"unknown-client", "unparseable", "unexpected-code", "aborted", "sent",
     "send-failed"}

\* C37: the message callback ends for every datagram a server socket is
\* handed, with a response sent or with the datagram dropped, as long as
\* the hooks it awaits complete; no datagram stops the server from taking
\* the datagrams that come after it
C37_DatagramsCompleted ==
    /\ [](serverProcess = "running")
    /\ \A t \in 1 .. MaxDatagrams :
         (t \in DOMAIN txns)
           ~> (t \in DOMAIN txns /\ txns[t].status \in Completed)

\* a datagram whose hooks were awaited and whose response was sent
C37_Reached ==
    \E t \in DOMAIN txns :
      /\ txns[t].status = "sent"
      /\ txns[t].log # <<>>

\* what the message callback holds of a datagram from its receipt on: the
\* socket, rinfo, the secret looked up and the request decoded
Receipt(txn) ==
    [type |-> txn.type, address |-> txn.address, port |-> txn.port,
     secret |-> txn.secret, req |-> txn.req]

\* the response sent as the o-th datagram is that of its own transaction
OwnResponse(o) ==
    LET t == out[o].txn
    IN  /\ t \in DOMAIN txns
        /\ txns[t].status = "sent"
        /\ out[o].buffer.identifier = txns[t].req.identifier
        /\ out[o].buffer.authen =
             MD5(<<out[o].buffer.code, out[o].buffer.identifier,
                   txns[t].req.authenticator, out[o].buffer.attributes,
                   txns[t].secret>>)
        /\ out[o].buffer.attributes = txns[t].res.attributes
        /\ out[o].type = txns[t].type
        /\ out[o].address = txns[t].address
        /\ out[o].port = txns[t].port

\* C38: with several requests in flight at once, every response sent
\* carries the identifier and the request authenticator of the request that
\* caused it, is encoded with the secret looked up for the request's source
\* when the request was received, and goes to the request's source address
\* and port; a step of one transaction changes no other transaction, and
\* what was received and looked up for a transaction never changes
C38_TransactionsApart ==
    /\ [](\A o \in DOMAIN out : OwnResponse(o))
    /\ [][ /\ \A t \in DOMAIN txns :
               /\ t \in DOMAIN txns'
               /\ Receipt(txns'[t]) = Receipt(txns[t])
           /\ \A t \in DOMAIN txns' \ DOMAIN txns :
               txns'[t].secret = ClientSecret(txns'[t].address)
           /\ Cardinality({ t \in DOMAIN txns : txns'[t] # txns[t] }) <= 1
           /\ \A o \in DOMAIN out : o \in DOMAIN out' /\ out'[o] = out[o]
         ]_vars

\* two requests with different identifiers were in flight at once and
\* were answered in the reverse of the order they came in, the client's
\* secret having been replaced between the two receipts
C38_Witness ==
    /\ Len(out) = 2
    /\ \E t, u \in DOMAIN txns :
         /\ t < u
         /\ out[1].txn = u
         /\ out[2].txn = t
         /\ txns[t].req.identifier # txns[u].req.identifier
         /\ txns[t].secret # txns[u].secret
         /\ txns[t].log # <<>>
         /\ txns[u].log # <<>>

\* C40: Attribute.fromWire and AttributeList.fromWire, through which
\* RadiusPacket.fromWire decodes the attributes of its buffer, leave every
\* byte of the buffer they are given as it was, the length byte of a
\* Vendor-Specific attribute included, whether they return or throw
C40_InputKept ==
    /\ applied.function = "Attribute.fromWire(toWire)"
         => returned.read.buffer = returned.encoded
    /\ applied.function = "AttributeList.fromWire(toWire)"
         => returned.read.buf = returned.given
    /\ applied.function = "AttributeList.fromWire"
         => returned.buf = applied.argument.buf

\* a list without a Vendor-Specific attribute was decoded and its bytes
\* are as they were
C40_Reached ==
    /\ applied.function = "AttributeList.fromWire(toWire)"
    /\ Len(applied.argument.attrs) = 2
    /\ returned.read.error = "none"
    /\ returned.read.buf = returned.given

====
